---- MODULE Spec2Model ----
(***************************************************************************)
(* A model of INVERSION-SIM: the TopK leaderboard, the stepping engine     *)
(* (runVariant with its inversion scheduler) and the BotFleet periodic     *)
(* driver (src/src/botFleet.ts).                                           *)
(*                                                                         *)
(* The leaderboard and the stepping engine are imported by the sources     *)
(* (./core.js, ./variants/*, ./anomaly_store) but are not among them; they *)
(* are modelled from sections 3, 4.1, 4.2 and 4.5 of the specification.    *)
(***************************************************************************)
EXTENDS Integers, Sequences, FiniteSets, TLC

VARIABLES
  \* ---- TopK leaderboard (one category) ----
  board,        \* the ranked sequence of entries [id, score]
  nextId,       \* insertion counter: the id the next inserted entry gets
  prevBoard,    \* the board as it was before the last insert call
  lastEntry,    \* the entry handed to the last insert call (id 0: none yet)
  \* ---- stepping engine: one run ----
  cfg,          \* the RunConfig of the run
  variant,      \* the Variant the run was started with
  pc,           \* "idle" | "running" | "done"
  t,            \* the current step index
  cur,          \* the current State (before it is recorded)
  trajectory,   \* the Trajectory Buffer
  events,       \* the Event Log
  cursor,       \* the scheduler's cursor: schedule entries applied so far
  activeKind,   \* the active inversion kind ("none" before the first switch)
  \* ---- BotFleet periodic driver ----
  intervalId,       \* BotFleet.intervalId: the timer handle, 0 for null
  activeTimers,     \* the interval timers that are set and not cleared
  nextHandle,       \* the handle the next setInterval call returns
  ticks,            \* timer callbacks started so far
  runCounter,       \* BotFleet.runCounter
  totalSimulations, \* BotFleet.totalSimulations
  uploads,          \* summaries posted under 'Simulation Summary'
  runsDir,          \* runs/: run number -> the scores its artifacts yield
  chain,            \* the anomaly store: category -> posts in arrival order
  categories,       \* BotFleet.categories: category -> ranked posts
  customCriteria,   \* criteria added to the detector by refineLogic
  tasks,            \* timer callbacks: iteration number -> its position
  evictions,        \* history: the run directories removed so far
  iterLog,          \* history: iteration number -> what its runIteration did
  issued,           \* history: the run numbers handed to persistence, in order
  \* ---- main.ts: the command line program, run in the same directory ----
  mpc,              \* "none" (no process) | "parsed" | "allocated"
  margs,            \* the arguments of the running process
  mrun,             \* the run number allocateRunDir gave it (0: none)
  counterFile,      \* run_counter.txt: its number, -1 while the file is absent
  mainStarts,       \* invocations of the program so far
  lastOutcome,      \* how the last invocation ended
  atStart,          \* history: runs/ and run_counter.txt when it started
  \* ---- one Bot ----
  currentConfig,    \* Bot.currentConfig (NoConfig for null)
  behaviorSequence, \* Bot.behaviorSequence: the behaviour window
  pushed,           \* history: every sample handed to addToBehaviorSequence
  spectralData,     \* Bot.spectralData
  analysed,         \* performSpectralAnalysis calls so far
  firstTrajectory,  \* history: the Trajectory of the first of two runs
  firstEvents,      \* history: the Event Log of the first of two runs
  runNo,            \* which run of the same RunConfig and Variant this is
  queryLog,         \* history: the last query call, its answer and the leaderboard around it
  bot,              \* one Bot: colPhase, stuckCounter, currentConfig, history, ... (see NewBot)
  iterations,       \* Bot.iterate calls so far
  trail,            \* history: the last TrailLen iterate calls, oldest first
  runLog,           \* history: per executed run, the config generated and the one run
  snapshots,        \* history: per history entry, the config value when it was pushed
  seenAtUpdate,     \* history: the executed runs when updateStucknessState last ran
  passes,           \* runIteration calls so far
  refines,          \* refineLogic calls that changed a config so far
  sortedLog,        \* the Event Log of the run the last callback wrote and sorted
  spiralChain,      \* the posts to 'Spiral Phase Dynamics', scores in posting order
  spiralData,       \* this.categories.get('Spiral Phase Dynamics'), as scores
  registered,       \* custom criteria the AnomalyDetector holds
  varied,           \* configs whose multiplier and mod refineLogic has set
  historyLen,       \* one bot's history.length
  allNormalized,    \* history: every event sorted so far had both phases in [0,1)
  bandEntries,      \* history: what the spacing-band criterion yields on sortedLog
  sorts             \* timer callbacks so far

lbVars  == <<board, nextId, prevBoard, lastEntry>>
runVars == <<cfg, variant, pc, t, cur, trajectory, events, cursor, activeKind>>
fleetVars == <<intervalId, activeTimers, nextHandle, ticks, runCounter,
               totalSimulations, uploads, runsDir, chain, categories,
               customCriteria, tasks, evictions, iterLog, issued>>
mainVars == <<mpc, margs, mrun, counterFile, mainStarts, lastOutcome, atStart>>
genVars  == <<currentConfig>>
winVars  == <<behaviorSequence, pushed>>
specVars == <<spectralData, analysed>>
rerunVars == <<firstTrajectory, firstEvents, runNo>>
queryVars == <<queryLog>>
colVars == <<bot, iterations, trail, runLog, snapshots, seenAtUpdate, passes, refines>>
refVars == <<sortedLog, spiralChain, spiralData, registered, varied, historyLen, allNormalized, bandEntries, sorts>>
vars    == <<lbVars, runVars, fleetVars, mainVars, genVars, winVars, specVars, rerunVars, queryVars, colVars, refVars>>

\* What the actions of one part leave alone.
outsideRerun == <<lbVars, fleetVars, mainVars, genVars, winVars, specVars, queryVars, colVars, refVars>>
outsideQuery == <<runVars, fleetVars, mainVars, genVars, winVars, specVars, rerunVars, colVars, refVars>>
outsideCol == <<lbVars, runVars, fleetVars, mainVars, genVars, winVars, specVars, rerunVars, queryVars, refVars>>
outsideRef == <<lbVars, runVars, fleetVars, mainVars, genVars, winVars, specVars, rerunVars, queryVars, colVars>>
outsideTopK  == <<runVars, fleetVars, mainVars, genVars, winVars, specVars, rerunVars, queryVars, colVars, refVars>>
outsideRun   == <<lbVars, fleetVars, mainVars, genVars, winVars, specVars, rerunVars, queryVars, colVars, refVars>>
outsideFleet == <<lbVars, runVars, mainVars, genVars, winVars, specVars, rerunVars, queryVars, colVars, refVars>>
outsideMain  == <<lbVars, runVars, genVars, winVars, specVars, rerunVars, queryVars, colVars, refVars>>
outsideBot   == <<lbVars, runVars, fleetVars, mainVars, winVars, specVars, rerunVars, queryVars, colVars, refVars>>
outsideSpectral == <<lbVars, runVars, fleetVars, mainVars, genVars, pushed, rerunVars, queryVars, colVars, refVars>>
outsideWindow == <<lbVars, runVars, fleetVars, mainVars, genVars, specVars, rerunVars, queryVars, colVars, refVars>>

(***************************************************************************)
(* Bounds of the model.                                                    *)
(***************************************************************************)
K          == 3    \* leaderboard capacity
MaxScore   == 3    \* scores are drawn from 0..MaxScore
MaxInserts == 5    \* insert calls per behaviour
MaxQuery   == 4    \* largest n asked of query
MaxSize    == 2    \* grid extents are drawn from 1..MaxSize
MaxSteps   == 3    \* cfg.steps is drawn from 1..MaxSteps
MaxSched   == 2    \* inversionSchedule holds at most MaxSched entries
NumBots    == 2    \* bots of the fleet (8 in the constructor)
MaxTicks   == 2    \* timer callbacks per behaviour
WindowCap  == 3    \* capacity of the behaviour window (1000 in the code)
MaxPushes  == 5    \* addToBehaviorSequence calls per behaviour
MaxSample  == 2    \* samples are drawn from 0..MaxSample
MinSamples == 4    \* shortest window that is analysed (10 in the code)
BinCap     == 5    \* most frequency bins computed (64 in the code)
MaxRefines == 1    \* refineLogic calls that change a config, per behaviour
MaxPasses  == 4    \* runIteration calls per behaviour
CycleWindow == 3   \* configs detectCycling looks back over (10 in the code)
MaxIterates == 8   \* Bot.iterate calls per behaviour
TrailLen   == 3    \* iterate calls remembered in trail
MaxMainRuns == 2   \* invocations of main.ts per behaviour
MaxDirs    == 2    \* highest run number found in runs/ when main.ts first starts
MaxEvents  == 7    \* events of a sorted run's Event Log
MaxSorts   == 3    \* timer callbacks per behaviour, where one run is sorted at a time
MaxStarts  == 2    \* setInterval calls per behaviour
TopCap     == 2    \* posts kept per category (1000 in sortRunsData)
UploadEvery == 2   \* simulations between summary uploads (5000 in runIteration)

(***************************************************************************)
(* Helpers.                                                                *)
(***************************************************************************)
Abs(a) == IF a < 0 THEN -a ELSE a

RECURSIVE GCD(_, _)
GCD(a, b) == IF b = 0 THEN a ELSE GCD(b, a % b)

\* Rationals n/d with d > 0, kept in lowest terms: positions and phases are
\* reals in the program.
Rat(n, d) ==
  LET s == IF d < 0 THEN -1 ELSE 1
      g == GCD(Abs(n), Abs(d))
  IN [n |-> (s * n) \div g, d |-> (s * d) \div g]

RInt(a)     == [n |-> a, d |-> 1]
RLeq(a, b)  == a.n * b.d <= b.n * a.d
RLt(a, b)   == a.n * b.d < b.n * a.d
RAddInt(a, k) == Rat(a.n + k * a.d, a.d)

(***************************************************************************)
(* TopK leaderboard (specification section 4.5).                           *)
(***************************************************************************)
Entry(id, score) == [id |-> id, score |-> score]
NoEntry          == Entry(0, 0)

\* The position an entry takes in a sequence sorted by score descending:
\* after every entry whose score is at least its own.
InsertSorted(s, e) ==
  LET p == Cardinality({i \in 1..Len(s) : s[i].score >= e.score})
  IN SubSeq(s, 1, p) \o <<e>> \o SubSeq(s, p + 1, Len(s))

\* The re-sort: a stable sort by score descending.
RECURSIVE SortDesc(_)
SortDesc(s) ==
  IF s = <<>> THEN <<>>
  ELSE InsertSorted(SortDesc(SubSeq(s, 1, Len(s) - 1)), s[Len(s)])

\* The index of the minimum entry: the lowest score, and among equal scores
\* the one ranked last.
MinIndex(s) ==
  CHOOSE i \in 1..Len(s) :
    \A j \in 1..Len(s) :
      s[j].score > s[i].score \/ (s[j].score = s[i].score /\ j <= i)

MinScore(s) == s[MinIndex(s)].score

InsertNoCapacity(b, e) == SortDesc(Append(b, e))

InsertEvictTop(b, e) ==
  IF Len(b) < K THEN SortDesc(Append(b, e))
  ELSE IF e.score > MinScore(b) THEN SortDesc([b EXCEPT ![1] = e])
  ELSE b

InsertOnTie(b, e) ==
  IF Len(b) < K THEN SortDesc(Append(b, e))
  ELSE IF e.score >= MinScore(b) THEN SortDesc([b EXCEPT ![MinIndex(b)] = e])
  ELSE b

InsertUnsorted(b, e) ==
  IF Len(b) < K THEN <<e>> \o b
  ELSE IF e.score > MinScore(b) THEN SortDesc([b EXCEPT ![MinIndex(b)] = e])
  ELSE b

\* insert(entry)
Insert(b, e) ==
  IF Len(b) < K THEN SortDesc(Append(b, e))
  ELSE IF e.score > MinScore(b) THEN SortDesc([b EXCEPT ![MinIndex(b)] = e])
  ELSE b

LbInit ==
  /\ board = <<>>
  /\ nextId = 1
  /\ prevBoard = <<>>
  /\ lastEntry = NoEntry

LbIdle == LbInit

DoInsert ==
  /\ nextId <= MaxInserts
  /\ \E score \in 0..MaxScore :
       LET e == Entry(nextId, score) IN
       /\ board' = Insert(board, e)
       /\ prevBoard' = board
       /\ lastEntry' = e
  /\ nextId' = nextId + 1
  /\ UNCHANGED outsideTopK

NoQuery == [queried |-> FALSE, n |-> 0, before |-> <<>>, result |-> <<>>, after |-> <<>>]

QueryIdle == queryLog = NoQuery

QueryAll(b, n) == b

\* query(n): the top min(n, size) entries.
Query(b, n) == SubSeq(b, 1, IF n < Len(b) THEN n ELSE Len(b))

\* The leaderboard as query(n) leaves it.
AfterQuery(b, n) == b

DoQuery ==
  /\ \E n \in 0..MaxQuery :
       /\ board' = AfterQuery(board, n)
       /\ queryLog' = [queried |-> TRUE, n |-> n, before |-> board,
                       result |-> Query(board, n), after |-> board']
  /\ UNCHANGED <<nextId, prevBoard, lastEntry, outsideQuery>>

(***************************************************************************)
(* Stepping engine (specification sections 3, 4.1 and 4.2).                *)
(***************************************************************************)
Variants == {"reflect", "clamp", "sticky", "inversion-reflect"}
Kinds    == {"GEOM", "SPHERE", "OBSERVER", "CAUSAL"}

\* The schedules of a valid RunConfig: at most MaxSched entries, step values
\* non-decreasing and within [0, steps], kinds from the closed set.
SchedEntries(steps, kinds) == [step : 0..steps, kind : kinds]

Schedules(steps, kinds) ==
  {s \in UNION {[1..n -> SchedEntries(steps, kinds)] : n \in 0..MaxSched} :
     \A i \in 1..Len(s) - 1 : s[i].step <= s[i + 1].step}

MkConfig(sx, sy, x0, y0, vx0, vy0, ph, steps, mul, md, sched) ==
  [sizeX |-> sx, sizeY |-> sy, x0 |-> x0, y0 |-> y0, vx0 |-> vx0, vy0 |-> vy0,
   phase0 |-> ph, steps |-> steps, multiplier |-> mul, mod |-> md,
   inversionSchedule |-> sched]

Speeds == {-2, -1, 0, 1, 3}

\* Every geometry, under a schedule that switches the kind mid-run or not at all.
GeometryConfigs ==
  {MkConfig(sx, sy, x0, y0, vx0, vy0, RInt(0), steps, 7, 5, sched) :
     sx \in 1..MaxSize, sy \in 1..MaxSize, x0 \in 0..MaxSize, y0 \in 0..MaxSize,
     vx0 \in Speeds, vy0 \in Speeds, steps \in 1..MaxSteps,
     sched \in {<<>>, <<[step |-> 1, kind |-> "GEOM"], [step |-> 1, kind |-> "CAUSAL"]>>}}

\* Every schedule, over runs that cross the boundary and runs that do not.
ScheduleConfigs ==
  UNION {{MkConfig(2, 1, 1, 1, vx0, 1, RInt(0), steps, 7, 5, sched) :
            vx0 \in {0, 3}, sched \in Schedules(steps, Kinds)} :
         steps \in 1..MaxSteps}

\* Every phase law, over a run that crosses the boundary.
PhaseConfigs ==
  {MkConfig(2, 2, 1, 0, 1, -1, ph, steps, mul, md, <<[step |-> 0, kind |-> "SPHERE"]>>) :
     ph \in {RInt(0), Rat(1, 2), Rat(2, 3)}, steps \in 1..MaxSteps,
     mul \in {3, 7}, md \in {2, 5}}

ValidConfig(c) ==
  /\ c.sizeX >= 1 /\ c.sizeY >= 1 /\ c.steps >= 1
  /\ c.x0 \in 0..c.sizeX /\ c.y0 \in 0..c.sizeY
  /\ c.multiplier >= 1 /\ c.mod >= 1
  /\ \A i \in 1..Len(c.inversionSchedule) :
       /\ c.inversionSchedule[i].step \in 0..c.steps
       /\ c.inversionSchedule[i].kind \in Kinds
       /\ i > 1 => c.inversionSchedule[i - 1].step <= c.inversionSchedule[i].step

Configs == {c \in GeometryConfigs \cup ScheduleConfigs \cup PhaseConfigs : ValidConfig(c)}

NoConfig == MkConfig(1, 1, 0, 0, 0, 0, RInt(0), 1, 1, 1, <<>>)

\* State: one per-step snapshot.
MkState(x, y, vx, vy, phase, inverted, step) ==
  [x |-> x, y |-> y, vx |-> vx, vy |-> vy, phase |-> phase,
   inverted |-> inverted, step |-> step]

InitialState(c) ==
  MkState(RInt(c.x0), RInt(c.y0), c.vx0, c.vy0, c.phase0, "none", 0)

NoState == MkState(RInt(0), RInt(0), 0, 0, RInt(0), "none", 0)

\* ---- Variant: the boundary rule on one axis ----
OutOfBounds(p, size) == RLt(p, RInt(0)) \/ RLt(RInt(size), p)

Clamp(p, size) ==
  IF RLt(p, RInt(0)) THEN RInt(0)
  ELSE IF RLt(RInt(size), p) THEN RInt(size)
  ELSE p

\* The center-anchored inversion: with c = r = size/2 the out-of-bounds
\* coordinate p maps to c + r*r/(p - c) = size*p / (2p - size).
Invert(p, size) == Rat(size * p.n, 2 * p.n - size * p.d)

AxisStepNoClamp(var, p0, v, size) ==
  LET p == RAddInt(p0, v) IN
  IF ~OutOfBounds(p, size) THEN [pos |-> p, vel |-> v, hit |-> FALSE]
  ELSE IF var = "reflect" THEN [pos |-> p, vel |-> -v, hit |-> TRUE]
  ELSE IF var = "inversion-reflect" THEN [pos |-> Invert(p, size), vel |-> v, hit |-> TRUE]
  ELSE [pos |-> Clamp(p, size), vel |-> v, hit |-> TRUE]

\* One axis of a step: the tentative position is position + velocity; when
\* it leaves [0, size] the variant's boundary rule applies.
AxisStep(var, p0, v, size) ==
  LET p == RAddInt(p0, v) IN
  IF ~OutOfBounds(p, size) THEN [pos |-> p, vel |-> v, hit |-> FALSE]
  ELSE IF var = "reflect" THEN [pos |-> Clamp(p, size), vel |-> -v, hit |-> TRUE]
  ELSE IF var = "inversion-reflect" THEN [pos |-> Invert(p, size), vel |-> v, hit |-> TRUE]
  ELSE [pos |-> Clamp(p, size), vel |-> v, hit |-> TRUE]

PhaseUpdateNotDivided(ph, mul, md) == Rat((ph.n * mul) % (md * ph.d), ph.d)

\* phase' = ((phase * multiplier) mod mod) / mod
PhaseUpdate(ph, mul, md) == Rat((ph.n * mul) % (md * ph.d), ph.d * md)

\* entry: the schedule entry whose firing the Event records (0: a boundary Event).
MkEvent(step, type, kind, entry, before, after, s) ==
  [step |-> step, eventType |-> type, kind |-> kind, entry |-> entry,
   phaseBefore |-> before, phaseAfter |-> after,
   x |-> s.x, y |-> s.y, vx |-> s.vx, vy |-> s.vy]

\* step(state, config, activeKind) -> (nextState, optionalEvent)
VariantStep(var, s, c, kind) ==
  LET ax == AxisStep(var, s.x, s.vx, c.sizeX)
      ay == AxisStep(var, s.y, s.vy, c.sizeY)
      ph == PhaseUpdate(s.phase, c.multiplier, c.mod)
      nx == MkState(ax.pos, ay.pos, ax.vel, ay.vel, ph, kind, s.step + 1)
  IN [next  |-> nx,
      event |-> IF ax.hit \/ ay.hit
                THEN <<MkEvent(s.step, var, kind, 0, s.phase, ph, nx)>>
                ELSE <<>>]

\* ---- Inversion Scheduler ----
\* The cursor after the scheduler is consulted with step index idx: while
\* the next unapplied entry's step is <= idx, apply it and advance.
RECURSIVE Advance(_, _, _)
Advance(sched, c, idx) ==
  IF c < Len(sched) /\ sched[c + 1].step <= idx
  THEN Advance(sched, c + 1, idx)
  ELSE c

\* The inversion Events of the entries applied at step idx, in schedule order.
SchedulerEventsByEntry(sched, from, to, idx, s) ==
  [i \in 1..(to - from) |->
     MkEvent(from + i, "inversion", sched[from + i].kind, from + i, s.phase, s.phase, s)]

SchedulerEvents(sched, from, to, idx, s) ==
  [i \in 1..(to - from) |->
     MkEvent(idx, "inversion", sched[from + i].kind, from + i, s.phase, s.phase, s)]

RecordedAfter(s, nx) == nx

\* The State appended to the Trajectory Buffer by one iteration.
Recorded(s, nx) == s

RunIdle ==
  /\ cfg = NoConfig
  /\ variant = "reflect"
  /\ pc = "idle"
  /\ t = 0
  /\ cur = NoState
  /\ trajectory = <<>>
  /\ events = <<>>
  /\ cursor = 0
  /\ activeKind = "none"

\* runVariant(variant, cfg): the state on entry to the stepping loop.
RunInit ==
  /\ cfg \in Configs
  /\ variant \in Variants
  /\ pc = "running"
  /\ t = 0
  /\ cur = InitialState(cfg)
  /\ trajectory = <<>>
  /\ events = <<>>
  /\ cursor = 0
  /\ activeKind = "none"

\* One iteration of the stepping loop.
StepIter ==
  /\ pc = "running"
  /\ t < cfg.steps
  /\ LET sched == cfg.inversionSchedule
         c2    == Advance(sched, cursor, t)
         kind  == IF c2 > cursor THEN sched[c2].kind ELSE activeKind
         here  == [cur EXCEPT !.inverted = kind, !.step = t]
         r     == VariantStep(variant, here, cfg, kind)
     IN /\ cursor' = c2
        /\ activeKind' = kind
        /\ trajectory' = Append(trajectory, Recorded(here, r.next))
        /\ events' = events \o r.event \o SchedulerEvents(sched, cursor, c2, t, here)
        /\ cur' = r.next
  /\ t' = t + 1
  /\ UNCHANGED <<cfg, variant, pc, outsideRun>>

\* The loop has run all its iterations: the run is complete.
Complete ==
  /\ pc = "running"
  /\ t = cfg.steps
  /\ pc' = "done"
  /\ UNCHANGED <<cfg, variant, t, cur, trajectory, events, cursor, activeKind, outsideRun>>

RerunIdle ==
  /\ firstTrajectory = <<>>
  /\ firstEvents = <<>>
  /\ runNo = 1

RunEntryResumed(c, left) == left

\* What runVariant starts its loop from; left is what an earlier run's loop
\* ended with.
RunEntry(c, left) ==
  [cur |-> InitialState(c), cursor |-> 0, activeKind |-> "none"]

\* runVariant is called again with the same Variant and the same RunConfig.
Rerun ==
  /\ pc = "done"
  /\ runNo = 1
  /\ firstTrajectory' = trajectory
  /\ firstEvents' = events
  /\ runNo' = 2
  /\ LET e == RunEntry(cfg, [cur |-> cur, cursor |-> cursor, activeKind |-> activeKind])
     IN /\ cur' = e.cur
        /\ cursor' = e.cursor
        /\ activeKind' = e.activeKind
  /\ pc' = "running"
  /\ t' = 0
  /\ trajectory' = <<>>
  /\ events' = <<>>
  /\ UNCHANGED <<cfg, variant, outsideRerun>>


\* checkConstraints' test behind the 'Phase out of bounds' violation.
PhaseOutOfBounds(traj) ==
  \E i \in 1..Len(traj) : RLt(traj[i].phase, RInt(0)) \/ RLt(RInt(1), traj[i].phase)

(***************************************************************************)
(* BotFleet: the periodic driver (src/src/botFleet.ts).                    *)
(*                                                                         *)
(* A timer callback runs to completion except at its awaits.  Each action  *)
(* below is one uninterrupted stretch of a callback: from the timer firing *)
(* to the first await, or from the resumption after one await to the next  *)
(* await or to the end of the callback.  What a bot's run yields is chosen *)
(* freely from Profiles; the anomaly store behind postAnomaly and          *)
(* getTopAnomalies keeps the posts of a category and answers with the      *)
(* highest scored ones.                                                    *)
(***************************************************************************)
Cats == <<"Event Density", "Phase Anomaly", "Spiral Phase Dynamics">>

\* What sortRunsData reads off a run's artifacts: the score under each
\* category, 0 where the category's condition is not met.
Profiles == {<<0, 0, 0>>, <<6, 0, 0>>, <<0, 1, 1>>}
NoProfile == <<0, 0, 0>>

CatNames == {Cats[c] : c \in DOMAIN Cats}

Post(runDir, score) == [runDir |-> runDir, score |-> score]

\* What runIteration did in one iteration: base is runCounter on entry, ran
\* the bots whose run was executed and written, failed the bot whose run
\* raised an error (0: none).
NoIteration == [base |-> 0, ran |-> {}, failed |-> 0]

\* The iteration whose runIteration wrote run r: the last one entered with
\* runCounter below r.
WriterOf(r) ==
  CHOOSE i \in 1..ticks :
    /\ iterLog[i].base < r
    /\ \A j \in 1..ticks : iterLog[j].base < r => j <= i

\* Where a bot's run can raise an error inside runIteration's loop.
Failures ==
  {[bot |-> 0, at |-> "none"]} \cup
  {[bot |-> b, at |-> a] : b \in 1..NumBots, a \in {"runVariant", "writeOutputs"}}

RECURSIVE SortedSeq(_)
\* fs.readdirSync: the entries in name order (run numbers are zero padded).
SortedSeq(S) ==
  IF S = {} THEN <<>>
  ELSE LET m == CHOOSE x \in S : \A y \in S : x <= y
       IN <<m>> \o SortedSeq(S \ {m})

IdleTask == [pc |-> "idle", todo |-> <<>>, stage |-> 0, loaded |-> NoProfile, k |-> 0]

RECURSIVE NextAwait(_, _, _, _)
\* sortRunsData's loop over runDirs, run up to its next postAnomaly call:
\* todo is the rest of runDirs (its head the run being examined), stage the
\* categories already examined for the head, loaded the head's parsed data.
NextAwait(todo, stage, loaded, dir) ==
  IF todo = <<>> THEN [todo |-> <<>>, stage |-> 0, loaded |-> NoProfile, post |-> <<>>]
  ELSE LET r == Head(todo) IN
    IF stage = 0 /\ r \notin DOMAIN dir
      THEN NextAwait(Tail(todo), 0, NoProfile, dir)
      ELSE LET data == IF stage = 0 THEN dir[r] ELSE loaded
               cs   == {c \in (stage + 1)..Len(Cats) : data[c] > 0}
           IN IF cs = {}
                THEN NextAwait(Tail(todo), 0, NoProfile, dir)
                ELSE LET c == CHOOSE x \in cs : \A y \in cs : x <= y
                     IN [todo |-> todo, stage |-> c, loaded |-> data,
                         post |-> <<[cat |-> Cats[c], entry |-> Post(r, data[c])]>>]

\* postAnomaly(category, data): the store appends the post.
PostAnomaly(ch, posts) ==
  IF posts = <<>> THEN ch
  ELSE [ch EXCEPT ![posts[1].cat] = Append(@, posts[1].entry)]

\* getTopAnomalies(category, n) followed by the sort of sortRunsData.
GetTopAnomalies(ch, cat, n) ==
  LET ranked == SortDesc(ch[cat])
  IN SubSeq(ranked, 1, IF Len(ranked) < n THEN Len(ranked) ELSE n)

\* The task record after sortRunsData has run up to its next await.
Sorting(res) ==
  IF res.post # <<>>
    THEN [pc |-> "runs", todo |-> res.todo, stage |-> res.stage,
          loaded |-> res.loaded, k |-> 0]
    ELSE [pc |-> "cats", todo |-> <<>>, stage |-> 0, loaded |-> NoProfile, k |-> 0]

\* The set deleteNonTopRuns would build from the 'Event Density' list alone.
TopRunDirsOfFirst(cs) == {cs[Cats[1]][i].runDir : i \in DOMAIN cs[Cats[1]]}

\* deleteNonTopRuns: the run directories named by no category.
TopRunDirs(cs) == UNION {{cs[c][i].runDir : i \in DOMAIN cs[c]} : c \in DOMAIN cs}

\* The BotFleet constructor; no timer is set and runs/ is empty.
FleetInit ==
  /\ intervalId = 0
  /\ activeTimers = {}
  /\ nextHandle = 1
  /\ ticks = 0
  /\ runCounter = 0
  /\ totalSimulations = 0
  /\ uploads = 0
  /\ runsDir = [r \in {} |-> NoProfile]
  /\ chain = [c \in CatNames |-> <<>>]
  /\ categories = [c \in CatNames |-> <<>>]
  /\ customCriteria = 0
  /\ tasks = [i \in 1..MaxTicks |-> IdleTask]
  /\ evictions = {}
  /\ iterLog = [i \in 1..MaxTicks |-> NoIteration]
  /\ issued = <<>>

FleetIdle == FleetInit

StartWithoutRunningCheck ==
  /\ nextHandle <= MaxStarts
  /\ intervalId' = nextHandle
  /\ activeTimers' = activeTimers \cup {nextHandle}
  /\ nextHandle' = nextHandle + 1
  /\ UNCHANGED <<ticks, runCounter, totalSimulations, uploads, runsDir, chain,
                 categories, customCriteria, tasks, evictions, iterLog, issued, outsideFleet>>

StartContinuousRunning ==
  /\ nextHandle <= MaxStarts
  /\ IF intervalId # 0
       THEN UNCHANGED <<intervalId, activeTimers, nextHandle>>
       ELSE /\ intervalId' = nextHandle
            /\ activeTimers' = activeTimers \cup {nextHandle}
            /\ nextHandle' = nextHandle + 1
  /\ UNCHANGED <<ticks, runCounter, totalSimulations, uploads, runsDir, chain,
                 categories, customCriteria, tasks, evictions, iterLog, issued, outsideFleet>>

StopContinuousRunning ==
  /\ IF intervalId # 0
       THEN /\ activeTimers' = activeTimers \ {intervalId}
            /\ intervalId' = 0
       ELSE UNCHANGED <<intervalId, activeTimers>>
  /\ UNCHANGED <<nextHandle, ticks, runCounter, totalSimulations, uploads, runsDir,
                 chain, categories, customCriteria, tasks, evictions, iterLog, issued, outsideFleet>>

\* A timer fires: the callback runs runIteration (every bot's run is written
\* to runs/ under the next run number) and enters sortRunsData, which lists
\* runs/ and runs up to its first await.  The loop over the bots has no
\* handler: an error raised by runVariant or writeOutputs for bot f.bot
\* leaves runIteration and rejects the callback's promise.
Tick(h) ==
  /\ h \in activeTimers
  /\ ticks < MaxTicks
  /\ \E f \in Failures :
       LET done == IF f.bot = 0 THEN NumBots ELSE f.bot - 1
           new  == (runCounter + 1)..(runCounter + done)
           used == IF f.at = "writeOutputs" THEN done + 1 ELSE done
       IN \E ps \in [new -> Profiles] :
            LET dir2   == [r \in DOMAIN runsDir \cup new |->
                             IF r \in new THEN ps[r] ELSE runsDir[r]]
                total2 == totalSimulations + done
                res    == NextAwait(SortedSeq(DOMAIN dir2), 0, NoProfile, dir2)
            IN /\ runsDir' = dir2
               /\ runCounter' = runCounter + used
               /\ totalSimulations' = total2
               /\ issued' = issued \o [n \in 1..used |-> runCounter + n]
               /\ iterLog' = [iterLog EXCEPT ![ticks + 1] =
                                [base |-> runCounter, ran |-> 1..done, failed |-> f.bot]]
               /\ IF f.bot = 0
                    THEN /\ uploads' = IF total2 % UploadEvery = 0
                                         THEN uploads + 1 ELSE uploads
                         /\ chain' = PostAnomaly(chain, res.post)
                         /\ tasks' = [tasks EXCEPT ![ticks + 1] = Sorting(res)]
                    ELSE /\ tasks' = [tasks EXCEPT ![ticks + 1].pc = "failed"]
                         /\ UNCHANGED <<uploads, chain>>
  /\ ticks' = ticks + 1
  /\ UNCHANGED <<intervalId, activeTimers, nextHandle, categories, customCriteria,
                 evictions, outsideFleet>>

\* A postAnomaly call of iteration i has returned: sortRunsData runs on to
\* its next postAnomaly call or, the runs exhausted, to the first
\* getTopAnomalies call.
ResumeSort(i) ==
  /\ tasks[i].pc = "runs"
  /\ LET res == NextAwait(tasks[i].todo, tasks[i].stage, tasks[i].loaded, runsDir)
     IN /\ chain' = PostAnomaly(chain, res.post)
        /\ tasks' = [tasks EXCEPT ![i] = Sorting(res)]
  /\ UNCHANGED <<intervalId, activeTimers, nextHandle, ticks, runCounter,
                 totalSimulations, uploads, runsDir, categories, customCriteria,
                 evictions, iterLog, issued, outsideFleet>>

\* A getTopAnomalies call of iteration i, not the last, has returned: the
\* category is set and the next category is asked for.
ResumeTop(i) ==
  /\ tasks[i].pc = "cats"
  /\ tasks[i].k + 1 < Len(Cats)
  /\ LET c == Cats[tasks[i].k + 1]
     IN categories' = [categories EXCEPT ![c] = GetTopAnomalies(chain, c, TopCap)]
  /\ tasks' = [tasks EXCEPT ![i].k = @ + 1]
  /\ UNCHANGED <<intervalId, activeTimers, nextHandle, ticks, runCounter,
                 totalSimulations, uploads, runsDir, chain, customCriteria,
                 evictions, iterLog, issued, outsideFleet>>

\* The last getTopAnomalies call of iteration i has returned: sortRunsData
\* sets the category and returns, and the callback goes on to
\* deleteNonTopRuns and refineLogic.
Finish(i) ==
  /\ tasks[i].pc = "cats"
  /\ tasks[i].k + 1 = Len(Cats)
  /\ LET c     == Cats[tasks[i].k + 1]
         cats2 == [categories EXCEPT ![c] = GetTopAnomalies(chain, c, TopCap)]
         keep  == TopRunDirs(cats2)
         gone  == DOMAIN runsDir \ keep
     IN /\ categories' = cats2
        /\ runsDir' = [r \in DOMAIN runsDir \cap keep |-> runsDir[r]]
        /\ evictions' = evictions \cup
             {[run |-> r, by |-> i,
               writerSorted |-> WriterOf(r) = i \/ tasks[WriterOf(r)].pc = "done"]
                : r \in gone}
        /\ customCriteria' = IF cats2["Spiral Phase Dynamics"] # <<>>
                               THEN customCriteria + 1 ELSE customCriteria
  /\ tasks' = [tasks EXCEPT ![i].pc = "done"]
  /\ UNCHANGED <<intervalId, activeTimers, nextHandle, ticks, runCounter,
                 totalSimulations, uploads, chain, iterLog, issued, outsideFleet>>

(***************************************************************************)
(* main.ts (src/src/blockchain/BlockchainStore.ts, from line 30): the      *)
(* command line program.  It parses its arguments, allocates a run         *)
(* directory under runs/ from run_counter.txt, runs the variant and writes *)
(* the outputs.  runs/ is the directory the fleet writes to.               *)
(***************************************************************************)
\* Argument values as typed on the command line: a number (Number(val) is
\* finite) or a word that is none.
Num(v) == [finite |-> TRUE, v |-> v]
NotANumber == [finite |-> FALSE, v |-> 0]
ArgValues    == {NotANumber} \cup {Num(v) : v \in -1..2}
VariantNames == {"clamp", "sticky", "inversion", "mirror"}
NoArgs == [steps |-> Num(1), sizeX |-> Num(1), sizeY |-> Num(1), variant |-> "inversion"]

\* parseNumber(val, name, min = 1) returns: Number(val) is finite and >= min.
ParseNumberOk(val, min) == val.finite /\ val.v >= min

ArgsOk(a) ==
  /\ ParseNumberOk(a.steps, 1)
  /\ ParseNumberOk(a.sizeX, 1)
  /\ ParseNumberOk(a.sizeY, 1)
  /\ a.variant \in {"clamp", "sticky", "inversion"}

MkFiles(dir, counter) == [dir |-> dir, counter |-> counter]

\* readRunCounter: the number read, and the file as it leaves it.
ReadRunCounter(counter) ==
  IF counter = -1 THEN [n |-> 1, counter |-> 1] ELSE [n |-> counter, counter |-> counter]

\* allocateRunDir without its existsSync test: the directory is taken over.
AllocateOverExisting(fs) ==
  LET rd == ReadRunCounter(fs.counter) IN
  [ok |-> TRUE, n |-> rd.n,
   fs |-> MkFiles([r \in DOMAIN fs.dir \cup {rd.n} |->
                     IF r = rd.n THEN NoProfile ELSE fs.dir[r]],
                  rd.n + 1)]

\* allocateRunDir on the files fs: refused when the run directory exists,
\* else the directory is made (empty) and the counter written back plus one.
AllocateRunDir(fs) ==
  LET rd == ReadRunCounter(fs.counter) IN
  IF rd.n \in DOMAIN fs.dir
    THEN [ok |-> FALSE, n |-> rd.n, fs |-> MkFiles(fs.dir, rd.counter)]
    ELSE [ok |-> TRUE, n |-> rd.n,
          fs |-> MkFiles([r \in DOMAIN fs.dir \cup {rd.n} |->
                            IF r = rd.n THEN NoProfile ELSE fs.dir[r]],
                         rd.n + 1)]

ExitAfterAllocate(fs) == AllocateRunDir(fs).fs

\* The files when the argument checks end the process (process.exit(1)):
\* main() has not been entered.
ExitOnArgError(fs) == fs

MainInit ==
  /\ mpc = "none"
  /\ margs = NoArgs
  /\ mrun = 0
  /\ counterFile = -1
  /\ mainStarts = 0
  /\ lastOutcome = "none"
  /\ atStart = MkFiles({}, -1)

MainIdle == MainInit

\* The program is started: the top level parses and checks the arguments.
MainStart ==
  /\ mpc = "none"
  /\ mainStarts < MaxMainRuns
  /\ mainStarts' = mainStarts + 1
  /\ atStart' = MkFiles(DOMAIN runsDir, counterFile)
  /\ \E a \in [steps : ArgValues, sizeX : ArgValues, sizeY : ArgValues,
               variant : VariantNames] :
       IF ArgsOk(a)
         THEN /\ mpc' = "parsed"
              /\ margs' = a
              /\ lastOutcome' = "running"
              /\ UNCHANGED <<runsDir, counterFile>>
         ELSE LET fs == ExitOnArgError(MkFiles(runsDir, counterFile)) IN
              /\ mpc' = "none"
              /\ margs' = NoArgs
              /\ lastOutcome' = "argerror"
              /\ runsDir' = fs.dir
              /\ counterFile' = fs.counter
  /\ UNCHANGED <<mrun, intervalId, activeTimers, nextHandle, ticks, runCounter,
                 totalSimulations, uploads, chain, categories, customCriteria,
                 tasks, evictions, iterLog, issued, outsideMain>>

\* main() calls allocateRunDir.
MainAllocate ==
  /\ mpc = "parsed"
  /\ LET al == AllocateRunDir(MkFiles(runsDir, counterFile)) IN
     /\ runsDir' = al.fs.dir
     /\ counterFile' = al.fs.counter
     /\ IF al.ok
          THEN /\ mpc' = "allocated"
               /\ mrun' = al.n
               /\ issued' = Append(issued, al.n)
               /\ UNCHANGED <<margs, lastOutcome>>
          ELSE /\ mpc' = "none"
               /\ mrun' = 0
               /\ margs' = NoArgs
               /\ lastOutcome' = "fatal"
               /\ UNCHANGED issued
  /\ UNCHANGED <<mainStarts, atStart, intervalId, activeTimers, nextHandle, ticks,
                 runCounter, totalSimulations, uploads, chain, categories,
                 customCriteria, tasks, evictions, iterLog, outsideMain>>

\* main() runs the variant and writes the outputs of the run, or the run
\* raises an error and the program ends with FATAL.
MainRun ==
  /\ mpc = "allocated"
  /\ \/ \E p \in Profiles :
          /\ runsDir' = [r \in DOMAIN runsDir \cup {mrun} |->
                           IF r = mrun THEN p ELSE runsDir[r]]
          /\ lastOutcome' = "ok"
     \/ /\ lastOutcome' = "fatal"
        /\ UNCHANGED runsDir
  /\ mpc' = "none"
  /\ mrun' = 0
  /\ margs' = NoArgs
  /\ UNCHANGED <<counterFile, mainStarts, atStart, intervalId, activeTimers,
                 nextHandle, ticks, runCounter, totalSimulations, uploads, chain,
                 categories, customCriteria, tasks, evictions, iterLog, issued,
                 outsideMain>>

(***************************************************************************)
(* Bot.generateConfig (src/src/botFleet.ts): every Math.random() draw is a *)
(* free choice; the draws kept are the ends of each range.                 *)
(***************************************************************************)
ScheduleDraw == 4    \* entries drawn: 0 .. ScheduleDraw - 1

\* sizeX, sizeY in 5..20, x0 < sizeX, y0 < sizeY, vx0, vy0 in -5..4: the
\* corners of the ranges, as <<sizeX, sizeY, x0, y0, vx0, vy0>>.
GeometryDraws == {<<5, 5, 0, 0, -5, -5>>, <<20, 20, 19, 19, 4, 4>>, <<5, 20, 4, 0, 4, -5>>}
StepsDraws    == {10000, 109999}
MultiplierDraws == {3, 7}
KindDraws     == {"GEOM", "CAUSAL"}
\* Math.random() in tenths, for the place of a schedule entry.
TenthDraws    == {0, 9}

\* Math.floor(steps * (0.2 + r * 0.6)) for r = tenths / 10.
DrawnStep(steps, tenths) == (steps * (20 + 6 * tenths)) \div 100

BotIdle == currentConfig = NoConfig

\* generateConfig, called by runIteration right before runSimulation hands
\* this.currentConfig to runVariant.
GenerateConfig ==
  /\ \E g \in GeometryDraws, steps \in StepsDraws, mul \in MultiplierDraws,
        n \in 0..(ScheduleDraw - 1) :
       \E draws \in [1..n -> [tenths : TenthDraws, kind : KindDraws]] :
         currentConfig' =
           MkConfig(g[1], g[2], g[3], g[4], g[5], g[6], RInt(0), steps, mul, 1000003,
                    [i \in 1..n |-> [step |-> DrawnStep(steps, draws[i].tenths),
                                     kind |-> draws[i].kind]])
  /\ UNCHANGED outsideBot

(***************************************************************************)
(* Bot.addToBehaviorSequence: the behaviour window.                        *)
(***************************************************************************)
\* push, and shift once the window is over capacity: the newest is dropped.
AddSampleDropNewest(seq, value) ==
  IF Len(seq) + 1 > WindowCap THEN seq ELSE Append(seq, value)

\* push, then shift (drop the oldest) once the window is over capacity.
AddSample(seq, value) ==
  LET s2 == Append(seq, value)
  IN IF Len(s2) > WindowCap THEN Tail(s2) ELSE s2

WindowInit ==
  /\ behaviorSequence = <<>>
  /\ pushed = <<>>

WindowIdle == WindowInit

AddToBehaviorSequence ==
  /\ Len(pushed) < MaxPushes
  /\ \E value \in 0..MaxSample :
       /\ behaviorSequence' = AddSample(behaviorSequence, value)
       /\ pushed' = Append(pushed, value)
  /\ UNCHANGED outsideWindow

(***************************************************************************)
(* Bot.performSpectralAnalysis.                                            *)
(*                                                                         *)
(* The sums are exact: the windows analysed have a length N that divides   *)
(* 12, so every angle 2*pi*k*t/N is a multiple of 30 degrees and every     *)
(* cosine and sine is half a number a + b*sqrt(3) with integers a, b,      *)
(* written <<a, b>>.  A magnitude is kept as its square times 4*N*N, which *)
(* orders the magnitudes of one window as the magnitudes themselves.       *)
(***************************************************************************)
QZero == <<0, 0>>
QAdd(p, q) == <<p[1] + q[1], p[2] + q[2]>>
QSub(p, q) == <<p[1] - q[1], p[2] - q[2]>>
QScale(c, p) == <<c * p[1], c * p[2]>>
\* a + b*sqrt(3) > 0
QPos(p) ==
  \/ p[1] > 0 /\ p[2] >= 0
  \/ p[1] >= 0 /\ p[2] > 0
  \/ p[1] > 0 /\ p[2] < 0 /\ p[1] * p[1] > 3 * p[2] * p[2]
  \/ p[1] < 0 /\ p[2] > 0 /\ 3 * p[2] * p[2] > p[1] * p[1]
QGt(p, q) == QPos(QSub(p, q))

\* 2*cos and 2*sin of m * 30 degrees.
Cos12(m) ==
  <<<<2, 0>>, <<0, 1>>, <<1, 0>>, <<0, 0>>, <<-1, 0>>, <<0, -1>>,
    <<-2, 0>>, <<0, -1>>, <<-1, 0>>, <<0, 0>>, <<1, 0>>, <<0, 1>>>>[(m % 12) + 1]
Sin12(m) == Cos12(m + 9)

\* The angle 2*pi*k*t/len in units of 30 degrees.
Angle12(k, tt, len) == (k * tt * (12 \div len)) % 12

RECURSIVE RealSum(_, _, _)
\* twice real: the sum of sequence[t] * cos(angle) over t < upto
RealSum(seq, k, upto) ==
  IF upto = 0 THEN QZero
  ELSE QAdd(RealSum(seq, k, upto - 1),
            QScale(seq[upto], Cos12(Angle12(k, upto - 1, Len(seq)))))

RECURSIVE ImagSum(_, _, _)
\* twice imag: minus the sum of sequence[t] * sin(angle) over t < upto
ImagSum(seq, k, upto) ==
  IF upto = 0 THEN QZero
  ELSE QSub(ImagSum(seq, k, upto - 1),
            QScale(seq[upto], Sin12(Angle12(k, upto - 1, Len(seq)))))

\* (real*real + imag*imag) * 4, i.e. magnitude squared times 4*N*N.
SqMagnitude(seq, k) ==
  LET re == RealSum(seq, k, Len(seq))
      im == ImagSum(seq, k, Len(seq))
  IN <<re[1] * re[1] + 3 * re[2] * re[2] + im[1] * im[1] + 3 * im[2] * im[2],
       2 * re[1] * re[2] + 2 * im[1] * im[2]>>

NumBinsUncapped(len) == len

\* n = Math.min(sequence.length, 64)
NumBins(len) == IF len < BinCap THEN len ELSE BinCap

RECURSIVE ScanEveryBin(_, _, _, _)
ScanEveryBin(mags, i, maxMag, at) ==
  IF i > Len(mags) THEN [maxMag |-> maxMag, at |-> at]
  ELSE IF QGt(mags[i], maxMag)
         THEN ScanEveryBin(mags, i + 1, mags[i], i)
         ELSE ScanEveryBin(mags, i + 1, maxMag, at)
DominantScanWithBinZero(mags, i, maxMag, at) == ScanEveryBin(mags, 1, maxMag, at)

RECURSIVE DominantScan(_, _, _, _)
\* The loop finding the dominant frequency, from bin index i (bin i - 1) on:
\* maxMag and the index of the bin that set it (0: none did).
DominantScan(mags, i, maxMag, at) ==
  IF i > Len(mags) THEN [maxMag |-> maxMag, at |-> at]
  ELSE IF QGt(mags[i], maxMag)
         THEN DominantScan(mags, i + 1, mags[i], i)
         ELSE DominantScan(mags, i + 1, maxMag, at)

\* magnitude > maxMag * 0.5, on the squares
OverHalf(mag, maxMag) == QGt(QScale(4, mag), maxMag)

HarmonicBinsFromZero(mags, maxMag) ==
  {i \in 1..Len(mags) : OverHalf(mags[i], maxMag)}

\* The bins (as indices) the harmonics loop pushes: it starts at bin 1.
HarmonicBins(mags, maxMag) ==
  {i \in 2..Len(mags) : OverHalf(mags[i], maxMag)}

ScoreOverWindow(count, bins, len) == Rat(count, len)

\* harmonics.length > 0 ? harmonics.length / n : 0
PeriodicityScore(count, bins, len) ==
  IF count > 0 THEN Rat(count, bins) ELSE RInt(0)

EmptySpectral ==
  [frequencies |-> <<>>, magnitudes |-> <<>>, dominantFrequency |-> RInt(0),
   harmonics |-> <<>>, periodicityScore |-> RInt(0)]

\* The analysis without the test of sequence.length.
AnalyseAnyWindow(seq, old) ==
  LET n     == NumBins(Len(seq))
      freqs == [i \in 1..n |-> Rat(i - 1, Len(seq))]
      mags  == [i \in 1..n |-> SqMagnitude(seq, i - 1)]
      dom   == DominantScan(mags, 2, QZero, 0)
      hb    == HarmonicBins(mags, dom.maxMag)
      harm  == [j \in 1..Cardinality(hb) |-> freqs[SortedSeq(hb)[j]]]
  IN [frequencies |-> freqs,
      magnitudes |-> mags,
      dominantFrequency |-> IF dom.at = 0 THEN RInt(0) ELSE freqs[dom.at],
      harmonics |-> harm,
      periodicityScore |-> PeriodicityScore(Len(harm), n, Len(seq))]

PerformSpectralAnalysis(seq, old) ==
  IF Len(seq) < MinSamples THEN old
  ELSE LET n     == NumBins(Len(seq))
           freqs == [i \in 1..n |-> Rat(i - 1, Len(seq))]
           mags  == [i \in 1..n |-> SqMagnitude(seq, i - 1)]
           dom   == DominantScan(mags, 2, QZero, 0)
           hb    == HarmonicBins(mags, dom.maxMag)
           harm  == [j \in 1..Cardinality(hb) |-> freqs[SortedSeq(hb)[j]]]
       IN [frequencies |-> freqs,
           magnitudes |-> mags,
           dominantFrequency |-> IF dom.at = 0 THEN RInt(0) ELSE freqs[dom.at],
           harmonics |-> harm,
           periodicityScore |-> PeriodicityScore(Len(harm), n, Len(seq))]

\* The windows analysed: every 0/1 window of length 3, 4 and 6, the 0/1
\* windows of length 6 played twice, and the sinusoids 2*cos(2*pi*k*t/N),
\* alone and lifted by 2, whose samples are integers.
Sinusoid(len, k) == [i \in 1..len |-> Cos12(Angle12(k, i - 1, len))[1]]
IntegerSinusoid(len, k) ==
  \A i \in 1..len : Cos12(Angle12(k, i - 1, len))[2] = 0
PureSinusoids ==
  {lk \in {4, 6, 12} \X (1..6) : 2 * lk[2] <= lk[1] /\ IntegerSinusoid(lk[1], lk[2])}
Windows ==
  [1..3 -> {0, 1}] \cup [1..4 -> {0, 1}] \cup [1..6 -> {0, 1}]
  \cup {w \o w : w \in [1..6 -> {0, 1}]}
  \cup {Sinusoid(lk[1], lk[2]) : lk \in PureSinusoids}
  \cup {[i \in 1..lk[1] |-> Sinusoid(lk[1], lk[2])[i] + 2] : lk \in PureSinusoids}

SpectralIdle ==
  /\ spectralData = EmptySpectral
  /\ analysed = 0

SpectralInit ==
  /\ behaviorSequence \in Windows
  /\ pushed = <<>>
  /\ spectralData = EmptySpectral
  /\ analysed = 0

PerformAnalysis ==
  /\ analysed = 0
  /\ spectralData' = PerformSpectralAnalysis(behaviorSequence, spectralData)
  /\ analysed' = analysed + 1
  /\ UNCHANGED <<behaviorSequence, outsideSpectral>>

(***************************************************************************)
(* One Bot: checkConstraints' history, the COL phases of iterate, and the  *)
(* stuckness detection and redirect of fleetCoordination.                  *)
(*                                                                         *)
(* RunConfig objects are mutated in place and shared between               *)
(* this.currentConfig and the history entries, so they live in a heap:     *)
(* bot.heap maps an object to its value, bot.currentConfig and the config  *)
(* of a history entry are objects.  Objects nothing refers to are dropped. *)
(* Every Math.random() draw is a free choice from a few values of its      *)
(* range.                                                                  *)
(***************************************************************************)
StuckLimit == 3      \* this.stuckCounter > 3

\* Two of the RunConfigs generateConfig can produce.
FreshConfigs ==
  {MkConfig(5, 5, 0, 0, -5, -5, RInt(0), 10000, 3, 1000003, <<>>),
   MkConfig(20, 20, 19, 19, 4, 4, RInt(0), 10000, 7, 1000003,
            <<[step |-> DrawnStep(10000, 0), kind |-> "GEOM"]>>)}

\* Math.random() > 0.5 ? 1 : -1, for sizeX and for sizeY.
NudgeDraws == {<<1, -1>>, <<-1, 1>>}
\* Math.floor(Math.random() * 1000) - 500
OffsetDraws == {-500, 499}
NoDraw == [fresh |-> NoConfig, nudge |-> <<0, 0>>, offset |-> 0]

NoStuckness == [isStuck |-> FALSE, type |-> "none", redirectStrategy |-> "none"]

\* The Bot after its constructor, which calls generateConfig once.
NewBot(c) ==
  [colPhase |-> "seeding", stuckCounter |-> 0,
   heap |-> (1 :> c), currentConfig |-> 1, nextObj |-> 2,
   history |-> <<>>, configHistory |-> <<>>, stucknessState |-> NoStuckness]

\* The objects the Bot can still reach.
Live(b) == {b.currentConfig} \cup {b.history[i].config : i \in 1..Len(b.history)}
Collect(b) == [b EXCEPT !.heap = [o \in Live(b) |-> b.heap[o]]]

\* this.currentConfig = { ... }: a new object.
SetNewConfig(b, c) ==
  Collect([b EXCEPT !.heap = (b.nextObj :> c) @@ b.heap,
                    !.currentConfig = b.nextObj,
                    !.nextObj = b.nextObj + 1])

Min2(a, b) == IF a < b THEN a ELSE b
Max2(a, b) == IF a > b THEN a ELSE b
FlipMultiplier(m) == IF m = 7 THEN 3 ELSE 7

ColPhaseUpdateEarly(phase, counter, valid) ==
  IF ~valid
    THEN [stuckCounter |-> counter + 1,
          colPhase |-> IF counter + 1 >= StuckLimit THEN "stuckness" ELSE phase]
    ELSE [stuckCounter |-> 0,
          colPhase |-> IF phase = "stuckness" THEN "emergence"
                       ELSE IF phase = "emergence" THEN "stabilization"
                       ELSE "exploration"]

ColPhaseUpdateNoEmergence(phase, counter, valid) ==
  IF ~valid
    THEN [stuckCounter |-> counter + 1,
          colPhase |-> IF counter + 1 > StuckLimit THEN "stuckness" ELSE phase]
    ELSE [stuckCounter |-> 0,
          colPhase |-> IF phase = "emergence" THEN "stabilization" ELSE "exploration"]

\* iterate, "Update COL phase".
ColPhaseUpdate(phase, counter, valid) ==
  IF ~valid
    THEN [stuckCounter |-> counter + 1,
          colPhase |-> IF counter + 1 > StuckLimit THEN "stuckness" ELSE phase]
    ELSE [stuckCounter |-> 0,
          colPhase |-> IF phase = "stuckness" THEN "emergence"
                       ELSE IF phase = "emergence" THEN "stabilization"
                       ELSE "exploration"]

\* iterate, the stuckness branch: the current object is changed in place.
Redirected(c, nudge) ==
  [c EXCEPT !.multiplier = FlipMultiplier(c.multiplier),
            !.sizeX = Max2(5, Min2(20, c.sizeX + nudge[1])),
            !.sizeY = Max2(5, Min2(20, c.sizeY + nudge[2]))]

\* iterate, the stabilization branch: the current object gets a new schedule.
Varied(c, offset) ==
  [c EXCEPT !.inversionSchedule =
     [i \in 1..Len(c.inversionSchedule) |->
        [step |-> c.inversionSchedule[i].step + offset,
         kind |-> c.inversionSchedule[i].kind]]]

\* Bot.iterate(feedback) with feedback.valid = valid.
IterateOp(b, valid, d) ==
  LET u  == ColPhaseUpdate(b.colPhase, b.stuckCounter, valid)
      b1 == [b EXCEPT !.colPhase = u.colPhase, !.stuckCounter = u.stuckCounter]
      o  == b1.currentConfig
  IN IF u.colPhase \in {"seeding", "exploration"} THEN SetNewConfig(b1, d.fresh)
     ELSE IF u.colPhase = "stuckness"
       THEN [b1 EXCEPT !.heap[o] = Redirected(b1.heap[o], d.nudge)]
     ELSE IF u.colPhase = "emergence"
       THEN IF valid THEN b1 ELSE SetNewConfig(b1, d.fresh)
     ELSE [b1 EXCEPT !.heap[o] = Varied(b1.heap[o], d.offset)]

\* What an iterate call draws: a generateConfig result, the two nudges or the
\* schedule offset, by the branch its COL phase takes.
IterateDraws(b, valid) ==
  LET u == ColPhaseUpdate(b.colPhase, b.stuckCounter, valid)
  IN IF u.colPhase \in {"seeding", "exploration"} \/ (u.colPhase = "emergence" /\ ~valid)
       THEN {[NoDraw EXCEPT !.fresh = c] : c \in FreshConfigs}
     ELSE IF u.colPhase = "stuckness"
       THEN {[NoDraw EXCEPT !.nudge = n] : n \in NudgeDraws}
     ELSE IF u.colPhase = "stabilization"
       THEN {[NoDraw EXCEPT !.offset = f] : f \in OffsetDraws}
     ELSE {NoDraw}

\* What trail remembers of one iterate call.
TrailEntry(from, valid, b) ==
  [from |-> from, valid |-> valid, to |-> b.colPhase, stuckCounter |-> b.stuckCounter]
Remember(tr, e) ==
  LET t2 == Append(tr, e) IN IF Len(t2) > TrailLen THEN Tail(t2) ELSE t2

ColIdle ==
  /\ bot = NewBot(NoConfig)
  /\ iterations = 0
  /\ trail = <<>>
  /\ runLog = <<>>
  /\ snapshots = <<>>
  /\ seenAtUpdate = [type |-> "none", redirectStrategy |-> "none", executed |-> <<>>]
  /\ passes = 0
  /\ refines = 0

ColInit ==
  /\ bot \in {NewBot(c) : c \in FreshConfigs}
  /\ iterations = 0
  /\ trail = <<>>
  /\ runLog = <<>>
  /\ snapshots = <<>>
  /\ seenAtUpdate = [type |-> "none", redirectStrategy |-> "none", executed |-> <<>>]
  /\ passes = 0
  /\ refines = 0

\* bot.iterate(feedback), called on its own.
Iterate ==
  /\ iterations < MaxIterates
  /\ \E valid \in BOOLEAN :
     \E d \in IterateDraws(bot, valid) :
       /\ bot' = IterateOp(bot, valid, d)
       /\ trail' = Remember(trail, TrailEntry(bot.colPhase, valid, bot'))
  /\ iterations' = iterations + 1
  /\ UNCHANGED <<runLog, snapshots, seenAtUpdate, passes, refines, outsideCol>>

(***************************************************************************)
(* One Bot inside BotFleet.runIteration and BotFleet.refineLogic.          *)
(***************************************************************************)
LocalWindow   == 5   \* this.history.slice(-5)
LocalFailures == 4   \* failureCount >= 4
BackupMin     == 5   \* this.configHistory.length > 5
RefineMin     == 5   \* bot.getHistory().length > 5

Strategies == {"backup", "strip_complexity", "invert", "perturb", "expose_assumptions"}
\* Math.floor(Math.random() * 10) - 5, for vx0 and for vy0.
PerturbDraws == {<<-5, -5>>, <<4, 4>>}
\* Math.floor(Math.random() * 1000000) + 1000000
ModDraws == {1000000, 1999999}

\* `${c.sizeX},${c.sizeY},${c.multiplier},${c.mod}`
ConfigString(c) == <<c.sizeX, c.sizeY, c.multiplier, c.mod>>

\* Fewer distinct strings than half of the last CycleWindow configs.
Cycling(configs) ==
  IF Len(configs) < CycleWindow THEN FALSE
  ELSE LET recent == SubSeq(configs, Len(configs) - CycleWindow + 1, Len(configs))
       IN 2 * Cardinality({ConfigString(recent[i]) : i \in 1..CycleWindow}) < CycleWindow

\* detectCycling reads this.configHistory, which no code appends to.
DetectCycling(b) == Cycling(b.configHistory)

DetectLocalMinima(b) ==
  IF Len(b.history) < LocalWindow THEN FALSE
  ELSE LET n == Len(b.history)
       IN Cardinality({i \in (n - LocalWindow + 1)..n : ~b.history[i].feedback})
            >= LocalFailures

\* updateStucknessState; strategy is what selectRedirectStrategy draws.
UpdateStucknessState(b, strategy) ==
  IF DetectCycling(b)
    THEN [b EXCEPT !.stucknessState =
            [isStuck |-> TRUE, type |-> "cycling", redirectStrategy |-> strategy]]
  ELSE IF DetectLocalMinima(b)
    THEN [b EXCEPT !.stucknessState =
            [isStuck |-> TRUE, type |-> "local_minima", redirectStrategy |-> strategy]]
  ELSE [b EXCEPT !.stucknessState = NoStuckness]

\* applyRedirectStrategy: 'backup' makes a new object, the next three change
\* the current one in place, 'expose_assumptions' touches no config.
ApplyRedirectStrategy(b, perturb) ==
  LET s == b.stucknessState.redirectStrategy
      o == b.currentConfig
      c == b.heap[o]
  IN IF s = "backup"
       THEN IF Len(b.configHistory) > BackupMin
              THEN SetNewConfig(b, b.configHistory[(Len(b.configHistory) \div 2) + 1])
              ELSE b
     ELSE IF s = "strip_complexity"
       THEN [b EXCEPT !.heap[o] = [c EXCEPT !.sizeX = Max2(5, c.sizeX - 2),
                                            !.sizeY = Max2(5, c.sizeY - 2)]]
     ELSE IF s = "invert"
       THEN [b EXCEPT !.heap[o] = [c EXCEPT !.multiplier = FlipMultiplier(c.multiplier)]]
     ELSE IF s = "perturb"
       THEN [b EXCEPT !.heap[o] = [c EXCEPT !.vx0 = perturb[1], !.vy0 = perturb[2]]]
     ELSE b

\* fleetCoordination, phase 4, for this bot.
Coordinate(b, strategy, perturb) ==
  LET b1 == UpdateStucknessState(b, strategy)
  IN IF b1.stucknessState.isStuck THEN ApplyRedirectStrategy(b1, perturb) ELSE b1

KeepCurrentConfig(b, c) == b

\* const config = bot.generateConfig(), in runIteration's loop.
PassConfig(b, c) == SetNewConfig(b, c)

\* checkConstraints' verdict: the result's checks (free: resultOk) and the
\* grid size of this.currentConfig.
Valid(b, resultOk) ==
  LET c == b.heap[b.currentConfig]
  IN resultOk /\ c.sizeX >= 5 /\ c.sizeX <= 20 /\ c.sizeY >= 5 /\ c.sizeY <= 20

\* this.history.push({ config: <the object>, feedback }): checkConstraints
\* does it, then runIteration does it again with the same object.
PushHistory(b, o, valid) ==
  [b EXCEPT !.history = Append(b.history, [config |-> o, feedback |-> valid])]

\* What the ghost variables keep of a history entry's config.
Stored(c) ==
  [multiplier |-> c.multiplier, mod |-> c.mod, sizeX |-> c.sizeX,
   sizeY |-> c.sizeY, inversionSchedule |-> c.inversionSchedule]

\* What fleetCoordination draws for the bot: selectRedirectStrategy's choice
\* when the bot is found stuck, and the two velocities when it is 'perturb'.
CoordinateDraws(b) ==
  IF DetectCycling(b) \/ DetectLocalMinima(b)
    THEN {[strategy |-> s, perturb |-> <<0, 0>>] : s \in Strategies \ {"perturb"}}
         \cup {[strategy |-> "perturb", perturb |-> p] : p \in PerturbDraws}
    ELSE {[strategy |-> "none", perturb |-> <<0, 0>>]}

\* runIteration for a fleet of this one bot: fleetCoordination, then the loop
\* body (generateConfig, runSimulation, checkConstraints, history push,
\* iterate).
RunIterationOfBot ==
  /\ passes < MaxPasses
  /\ \E cd \in CoordinateDraws(bot), fresh \in FreshConfigs, resultOk \in BOOLEAN :
       LET b1    == Coordinate(bot, cd.strategy, cd.perturb)
           b2    == PassConfig(b1, fresh)
           o     == b2.currentConfig
           valid == Valid(b2, resultOk)
           b3    == PushHistory(PushHistory(b2, o, valid), o, valid)
       IN \E d \in IterateDraws(b3, valid) :
          LET b4 == IterateOp(b3, valid, d) IN
          /\ bot' = b4
          /\ runLog' = Append(runLog,
               [held |-> b1.heap[b1.currentConfig], fresh |-> fresh,
                passed |-> b2.heap[o],
                redirected |-> b1.heap[b1.currentConfig] # bot.heap[bot.currentConfig],
                phase |-> bot.colPhase, valid |-> valid])
          /\ snapshots' = snapshots \o <<Stored(b2.heap[o]), Stored(b2.heap[o])>>
          /\ seenAtUpdate' = [type |-> b1.stucknessState.type,
                              redirectStrategy |-> b1.stucknessState.redirectStrategy,
                              executed |-> [i \in 1..Len(runLog) |-> runLog[i].passed]]
          /\ trail' = Remember(trail, TrailEntry(bot.colPhase, valid, b4))
  /\ iterations' = iterations + 1
  /\ passes' = passes + 1
  /\ UNCHANGED <<refines, outsideCol>>

\* refineLogic's loop body for this bot, when the 'Spiral Phase Dynamics'
\* category has entries and the bot's history is long enough.
RefineLogicOfBot ==
  /\ refines < MaxRefines
  /\ refines' = refines + 1
  /\ Len(bot.history) > RefineMin
  /\ \E md \in ModDraws :
       LET o == bot.history[Len(bot.history)].config
           c == bot.heap[o]
       IN bot' = [bot EXCEPT !.heap[o] =
                    [c EXCEPT !.multiplier = FlipMultiplier(c.multiplier), !.mod = md]]
  /\ UNCHANGED <<iterations, trail, runLog, snapshots, seenAtUpdate, passes, outsideCol>>

(***************************************************************************)
(* The 'Spiral Phase Dynamics' path of a timer callback, for the run it    *)
(* has just written: sortRunsData's test on the run's events, the category *)
(* list, and refineLogic with the spacing-band criterion it registers.     *)
(* Phases are rationals; a test on a remainder is a test of divisibility.  *)
(***************************************************************************)
BandLimit == 5   \* uniqueSpacings.length <= 5

RSub(a, b) == Rat(a.n * b.d - b.n * a.d, a.d * b.d)

Event(step, phaseBefore, phaseAfter) ==
  [step |-> step, phaseBefore |-> phaseBefore, phaseAfter |-> phaseAfter]

\* An event's phases, before and after: inside [0,1) with a jump up, down or
\* none, and outside it with jumps of 7, 3, 5 and 3/2.
NormalizedPairs == {<<Rat(1, 4), Rat(3, 4)>>, <<Rat(3, 4), Rat(1, 4)>>,
                    <<Rat(1, 2), Rat(1, 2)>>}
RawPairs == {<<RInt(0), RInt(7)>>, <<Rat(1, 2), Rat(7, 2)>>, <<RInt(0), RInt(5)>>,
             <<RInt(0), Rat(3, 2)>>}

RECURSIVE StepAt(_, _, _)
\* The step of event i when the spacings run base, base+1, ..., base+d-1 and
\* over again.
StepAt(i, d, base) ==
  IF i = 1 THEN 10 ELSE StepAt(i - 1, d, base) + base + ((i - 2) % d)

\* The Event Logs sortRunsData is given: len events, d distinct spacings,
\* all events with phases 1/4 and 3/4 but the last, which has the pair last.
EventLogs ==
  {[i \in 1..len |->
      IF i = len THEN Event(StepAt(i, d, base), last[1], last[2])
      ELSE Event(StepAt(i, d, base), Rat(1, 4), Rat(3, 4))] :
    len \in 0..MaxEvents, d \in {1, BandLimit, BandLimit + 1}, base \in {0, 1},
    last \in NormalizedPairs \cup RawPairs}

\* jump % k === 0
IsMultipleOf(jump, k) == jump.d = 1 /\ jump.n % k = 0

MultiplicativeAnyJump(jump) == IsMultipleOf(jump, 7) \/ IsMultipleOf(jump, 3)

\* jump > 1 && (jump % 7 === 0 || jump % 3 === 0)
Multiplicative(jump) ==
  RLt(RInt(1), jump) /\ (IsMultipleOf(jump, 7) \/ IsMultipleOf(jump, 3))

\* e.phaseAfter - e.phaseBefore
PhaseJump(e) == RSub(e.phaseAfter, e.phaseBefore)

HasMultiplicative(log) == \E i \in 1..Len(log) : Multiplicative(PhaseJump(log[i]))

\* The score posted: the number of such jumps.
SpiralScore(log) == Cardinality({i \in 1..Len(log) : Multiplicative(PhaseJump(log[i]))})

\* getTopAnomalies('Spiral Phase Dynamics', 1000), sorted by score descending.
TopScores(posts) ==
  LET ranked == SortDesc([i \in 1..Len(posts) |-> Post(i, posts[i])])
      n      == IF Len(ranked) < TopCap THEN Len(ranked) ELSE TopCap
  IN [i \in 1..n |-> ranked[i].score]

\* events[i].step - events[i-1].step for i = 1 .. events.length - 1
Spacings(log) == [i \in 1..(IF Len(log) = 0 THEN 0 ELSE Len(log) - 1) |->
                    log[i + 1].step - log[i].step]

BandEntry(score) == [score |-> score, category |-> "Spacing Bands"]

\* The criterion with the spacings counted where they are.
SpacingCriterionPerSpacing(log) ==
  IF Len(Spacings(log)) <= BandLimit THEN <<BandEntry(Len(Spacings(log)))>> ELSE <<>>

\* The criterion refineLogic registers: uniqueSpacings = [...new Set(spacings)].
SpacingCriterion(log) ==
  LET uniqueSpacings == {Spacings(log)[i] : i \in 1..Len(Spacings(log))}
  IN IF Cardinality(uniqueSpacings) <= BandLimit
       THEN <<BandEntry(Cardinality(uniqueSpacings))>>
       ELSE <<>>

RefInit ==
  /\ sortedLog = <<>>
  /\ spiralChain = <<>>
  /\ spiralData = <<>>
  /\ registered = 0
  /\ varied = 0
  /\ historyLen = 0
  /\ allNormalized = TRUE
  /\ bandEntries = <<>>
  /\ sorts = 0

RefIdle == RefInit

InUnit(p) == RLeq(RInt(0), p) /\ RLt(p, RInt(1))

\* A timer callback for a fleet of one bot: runIteration writes a run with
\* the Event Log log and adds the run's two history entries, sortRunsData
\* posts it if it has a multiplicative jump and refreshes the category,
\* refineLogic registers the criterion and varies the bot's last config
\* when the category is not empty.
SortAndRefine ==
  /\ sorts < MaxSorts
  /\ sorts' = sorts + 1
  /\ \E log \in EventLogs :
       LET posts  == IF HasMultiplicative(log)
                       THEN Append(spiralChain, SpiralScore(log)) ELSE spiralChain
           top    == TopScores(posts)
           refine == Len(top) > 0
       IN /\ sortedLog' = log
          /\ spiralChain' = posts
          /\ spiralData' = top
          /\ historyLen' = historyLen + 2
          /\ registered' = IF refine THEN registered + 1 ELSE registered
          /\ varied' = IF refine /\ historyLen + 2 > RefineMin THEN varied + 1 ELSE varied
          /\ allNormalized' = (allNormalized /\
               \A i \in 1..Len(log) : InUnit(log[i].phaseBefore) /\ InUnit(log[i].phaseAfter))
          /\ bandEntries' = SpacingCriterion(log)
  /\ UNCHANGED outsideRef

(***************************************************************************)
(* Specifications.                                                         *)
(***************************************************************************)
TopKNext == DoInsert \/ DoQuery
TopKInit == LbInit /\ RunIdle /\ FleetIdle /\ MainIdle /\ BotIdle /\ WindowIdle /\ SpectralIdle /\ RerunIdle /\ QueryIdle /\ ColIdle /\ RefIdle
SpecTopK == TopKInit /\ [][TopKNext]_vars

RunNext == StepIter \/ Complete
RunSpecInit == RunInit /\ LbIdle /\ FleetIdle /\ MainIdle /\ BotIdle /\ WindowIdle /\ SpectralIdle /\ RerunIdle /\ QueryIdle /\ ColIdle /\ RefIdle
SpecRun == RunSpecInit /\ [][RunNext]_vars

RerunNext == StepIter \/ Complete \/ Rerun
RerunSpecInit == RunInit /\ LbIdle /\ FleetIdle /\ MainIdle /\ BotIdle /\ WindowIdle /\ SpectralIdle /\ RerunIdle /\ QueryIdle /\ ColIdle /\ RefIdle
SpecRerun == RerunSpecInit /\ [][RerunNext]_vars

ColNext == Iterate
ColSpecInit == ColInit /\ LbIdle /\ RunIdle /\ FleetIdle /\ MainIdle /\ BotIdle /\ WindowIdle /\ SpectralIdle /\ RerunIdle /\ QueryIdle /\ RefIdle
SpecCol == ColSpecInit /\ [][ColNext]_vars

\* runIteration alone, iteration after iteration.
PassNext == RunIterationOfBot
PassSpecInit == ColInit /\ LbIdle /\ RunIdle /\ FleetIdle /\ MainIdle /\ BotIdle /\ WindowIdle /\ SpectralIdle /\ RerunIdle /\ QueryIdle /\ RefIdle
SpecPass == PassSpecInit /\ [][PassNext]_vars

\* runIteration and refineLogic in any order.
BotNext == RunIterationOfBot \/ RefineLogicOfBot
BotSpecInit == ColInit /\ LbIdle /\ RunIdle /\ FleetIdle /\ MainIdle /\ BotIdle /\ WindowIdle /\ SpectralIdle /\ RerunIdle /\ QueryIdle /\ RefIdle
SpecBot == BotSpecInit /\ [][BotNext]_vars

FleetNext ==
  \/ StartContinuousRunning
  \/ StopContinuousRunning
  \/ \E h \in activeTimers : Tick(h)
  \/ \E i \in 1..MaxTicks : ResumeSort(i) \/ ResumeTop(i) \/ Finish(i)
FleetSpecInit == FleetInit /\ LbIdle /\ RunIdle /\ MainIdle /\ BotIdle /\ WindowIdle /\ SpectralIdle /\ RerunIdle /\ QueryIdle /\ ColIdle /\ RefIdle
SpecFleet == FleetSpecInit /\ [][FleetNext]_vars

MainNext == MainStart \/ MainAllocate \/ MainRun
MainSpecInit == MainInit /\ FleetIdle /\ LbIdle /\ RunIdle /\ BotIdle /\ WindowIdle /\ SpectralIdle /\ RerunIdle /\ QueryIdle /\ ColIdle /\ RefIdle
SpecMain == MainSpecInit /\ [][MainNext]_vars

GenNext == GenerateConfig
GenSpecInit == BotIdle /\ LbIdle /\ RunIdle /\ FleetIdle /\ MainIdle /\ WindowIdle /\ SpectralIdle /\ RerunIdle /\ QueryIdle /\ ColIdle /\ RefIdle
SpecGen == GenSpecInit /\ [][GenNext]_vars

WindowNext == AddToBehaviorSequence
WindowSpecInit == WindowInit /\ BotIdle /\ LbIdle /\ RunIdle /\ FleetIdle /\ MainIdle /\ SpectralIdle /\ RerunIdle /\ QueryIdle /\ ColIdle /\ RefIdle
SpecWindow == WindowSpecInit /\ [][WindowNext]_vars

SpectralNext == PerformAnalysis
SpectralSpecInit == SpectralInit /\ BotIdle /\ LbIdle /\ RunIdle /\ FleetIdle /\ MainIdle /\ RerunIdle /\ QueryIdle /\ ColIdle /\ RefIdle
SpecSpectral == SpectralSpecInit /\ [][SpectralNext]_vars

\* main.ts started on files left by earlier processes: run directories
\* 1..MaxDirs present or not (copied runs, runs the fleet wrote), and
\* run_counter.txt absent or holding a number up to MaxDirs + 1.
AllocSpecInit ==
  /\ \E S \in SUBSET (1..MaxDirs) : runsDir = [r \in S |-> <<6, 0, 0>>]
  /\ counterFile \in -1..(MaxDirs + 1)
  /\ mpc = "none" /\ margs = NoArgs /\ mrun = 0 /\ mainStarts = 0
  /\ lastOutcome = "none" /\ atStart = MkFiles({}, -1)
  /\ intervalId = 0 /\ activeTimers = {} /\ nextHandle = 1 /\ ticks = 0
  /\ runCounter = 0 /\ totalSimulations = 0 /\ uploads = 0
  /\ chain = [c \in CatNames |-> <<>>] /\ categories = [c \in CatNames |-> <<>>]
  /\ customCriteria = 0 /\ tasks = [i \in 1..MaxTicks |-> IdleTask]
  /\ evictions = {} /\ iterLog = [i \in 1..MaxTicks |-> NoIteration] /\ issued = <<>>
  /\ LbIdle /\ RunIdle /\ BotIdle /\ WindowIdle /\ SpectralIdle /\ RerunIdle
  /\ QueryIdle /\ ColIdle /\ RefIdle
SpecAlloc == AllocSpecInit /\ [][MainNext]_vars

RefNext == SortAndRefine
RefSpecInit == RefInit /\ LbIdle /\ RunIdle /\ FleetIdle /\ MainIdle /\ BotIdle /\ WindowIdle /\ SpectralIdle /\ RerunIdle /\ QueryIdle /\ ColIdle
SpecRef == RefSpecInit /\ [][RefNext]_vars

\* The program and a fleet's runIteration working in the same directory
\* (the behaviours in which no suspended callback is resumed).
PersistNext ==
  \/ MainNext
  \/ StartContinuousRunning
  \/ \E h \in activeTimers : Tick(h)
SpecPersist == MainSpecInit /\ [][PersistNext]_vars

(***************************************************************************)
(* Claims.                                                                 *)
(***************************************************************************)
Range(s) == {s[i] : i \in DOMAIN s}

Inserted == lastEntry.id # 0
LeastScore(b) == CHOOSE m \in {e.score : e \in Range(b)} : \A e \in Range(b) : m <= e.score

\* C1: after any sequence of insert calls the leaderboard holds at most K
\* entries.
C1_SizeAtMostK == Len(board) <= K

C1_Witness == Len(prevBoard) = K /\ Len(board) = K /\ Inserted

\* C2: an insert into a full leaderboard with a score above the current
\* minimum removes exactly one entry, an entry of minimum score, adds the new
\* entry, keeps every other entry, and leaves the size at K.
C2_EvictsExactlyMin ==
  (Inserted /\ Len(prevBoard) = K /\ lastEntry.score > LeastScore(prevBoard)) =>
    /\ Len(board) = K
    /\ lastEntry \in Range(board)
    /\ Cardinality(Range(prevBoard) \ Range(board)) = 1
    /\ \A e \in Range(prevBoard) \ Range(board) : e.score = LeastScore(prevBoard)
    /\ Range(board) \ Range(prevBoard) = {lastEntry}

C2_Witness ==
  /\ Inserted /\ Len(prevBoard) = K
  /\ lastEntry.score > LeastScore(prevBoard)
  /\ prevBoard[1].score > LeastScore(prevBoard)
  /\ lastEntry \in Range(board)

\* C3: an insert into a full leaderboard with a score less than or equal to
\* the current minimum leaves the leaderboard unchanged.
C3_NoOpAtOrBelowMin ==
  (Inserted /\ Len(prevBoard) = K /\ lastEntry.score <= LeastScore(prevBoard)) =>
    board = prevBoard

C3_Witness ==
  /\ Inserted /\ Len(prevBoard) = K
  /\ lastEntry.score = LeastScore(prevBoard)
  /\ board = prevBoard

\* C4: the entries are ordered by score descending, and entries of equal
\* score appear in the order they were inserted, earliest first.
C4_SortedStable ==
  \A i, j \in 1..Len(board) :
    i < j => \/ board[i].score > board[j].score
             \/ (board[i].score = board[j].score /\ board[i].id < board[j].id)

C4_Witness ==
  /\ Len(board) = K
  /\ board[1].score > board[2].score
  /\ board[2].score = board[3].score
  /\ board[1].id > board[3].id
  /\ lastEntry.id > K

IsInversion(e) == e.eventType = "inversion"
FiredEntries == LET se == SelectSeq(events, IsInversion) IN [i \in 1..Len(se) |-> se[i].entry]

C8_EventsOrderedByStep ==
  \A i, j \in 1..Len(events) : i < j => events[i].step <= events[j].step

C8_Witness ==
  /\ pc = "done"
  /\ \E i, j, k \in 1..Len(events) :
       /\ i < j /\ j < k
       /\ ~IsInversion(events[i]) /\ IsInversion(events[j]) /\ ~IsInversion(events[k])
       /\ events[i].step < events[j].step

InFlight == {i \in 1..MaxTicks : tasks[i].pc \in {"runs", "cats"}}

\* C9: under the periodic driver no iteration begins before the previous one
\* has fully completed: at most one timer callback is between its start and
\* its end at any time.
C9_NoOverlappingIterations == Cardinality(InFlight) <= 1

\* C10: whenever deleteNonTopRuns removes a run directory, the iteration
\* that wrote the run has already completed its sortRunsData pass.
C10_EvictsOnlySortedRuns == \A e \in evictions : e.writerSorted

\* C11: a failure of one bot's run inside runIteration is local to that run:
\* in every iteration that was entered, every bot's run is executed.
C11_FailureIsLocal ==
  \A i \in 1..ticks : (1..NumBots) \subseteq (iterLog[i].ran \cup {iterLog[i].failed})

\* C12: when main.ts detects an invalid --steps, --sizeX, --sizeY or
\* --variant value, no run directory has been created and run_counter.txt has
\* not been created or advanced.
C12_ArgErrorLeavesNoArtifacts ==
  lastOutcome = "argerror" =>
    /\ DOMAIN runsDir = atStart.dir
    /\ counterFile = atStart.counter

C12_Witness ==
  /\ lastOutcome = "argerror"
  /\ mainStarts = 2
  /\ counterFile = 2
  /\ DOMAIN runsDir = {1}

\* C13: the run numbers handed to persistence, by allocateRunDir of main.ts
\* or by BotFleet.runIteration, are strictly increasing in the order issued,
\* so none is issued twice.
C13_RunIdsIncrease ==
  \A i, j \in 1..Len(issued) : i < j => issued[i] < issued[j]

\* C14: every RunConfig the fleet passes to runVariant has an
\* inversionSchedule whose step values are non-decreasing in sequence order
\* and lie in [0, steps].
C14_GeneratedScheduleValid ==
  currentConfig # NoConfig =>
    LET sched == currentConfig.inversionSchedule IN
    /\ \A i, j \in 1..Len(sched) : i < j => sched[i].step <= sched[j].step
    /\ \A i \in 1..Len(sched) : 0 <= sched[i].step /\ sched[i].step <= currentConfig.steps

LastOf(seq, n) == SubSeq(seq, Len(seq) - n + 1, Len(seq))

\* C15: after any sequence of addToBehaviorSequence calls the window holds
\* at most WindowCap samples, and they are the most recent
\* min(n, WindowCap) samples pushed, in arrival order.
C15_WindowIsMostRecent ==
  /\ Len(behaviorSequence) <= WindowCap
  /\ behaviorSequence =
       LastOf(pushed, IF Len(pushed) < WindowCap THEN Len(pushed) ELSE WindowCap)

C15_Witness ==
  /\ Len(pushed) > WindowCap + 1
  /\ Len(behaviorSequence) = WindowCap
  /\ pushed[1] # behaviorSequence[1]
  /\ behaviorSequence[WindowCap] # behaviorSequence[1]

\* What the claims say of one analysis: the bins of the stored result.
WindowLength == Len(behaviorSequence)
BinCount == IF WindowLength <= BinCap THEN WindowLength ELSE BinCap
BinsAreMinOfLengthAndCap ==
  /\ Len(spectralData.frequencies) = BinCount
  /\ Len(spectralData.magnitudes) = BinCount
  /\ \A k \in 0..(BinCount - 1) :
       spectralData.frequencies[k + 1] = Rat(k, WindowLength)

\* C16 (as amended): after performSpectralAnalysis on a window of at least
\* MinSamples samples (10 in the code), frequencies and magnitudes both have
\* min(N, BinCap) entries and bin k reports the frequency k/N.
C16_BinsOfAnalysedWindow ==
  (analysed > 0 /\ WindowLength >= MinSamples) => BinsAreMinOfLengthAndCap

\* C16 (as stated): the same of every window, whatever its length.
C16_BinsOfEveryWindow ==
  analysed > 0 => BinsAreMinOfLengthAndCap

C16_Witness ==
  /\ analysed > 0
  /\ WindowLength > BinCap
  /\ Len(spectralData.frequencies) = BinCap
  /\ spectralData.frequencies[BinCap] = Rat(BinCap - 1, WindowLength)
\* The bins other than bin 0, as indices of the stored arrays.
OtherBins == 2..Len(spectralData.magnitudes)
Analysed == analysed > 0 /\ WindowLength >= MinSamples
\* Bin i is one of maximum magnitude among the bins other than bin 0.
MaxAmongOthers(i) ==
  /\ i \in OtherBins
  /\ \A j \in OtherBins :
       ~QGt(spectralData.magnitudes[j], spectralData.magnitudes[i])
SomeOtherBinPositive ==
  \E j \in OtherBins : QPos(spectralData.magnitudes[j])

\* C17 (as stated): the dominant frequency of an analysis is the frequency of
\* a bin of maximum magnitude among the bins other than bin 0.
C17_DominantIsMaxOtherBin ==
  Analysed =>
    \E i \in OtherBins :
      MaxAmongOthers(i) /\ spectralData.dominantFrequency = spectralData.frequencies[i]

\* C17 (as amended): when some bin other than bin 0 has a positive magnitude
\* the dominant frequency is the frequency of a bin of maximum magnitude
\* among them; when none has, it is 0.
C17_DominantIsMaxOtherBinOrZero ==
  Analysed =>
    IF SomeOtherBinPositive
      THEN \E i \in OtherBins :
             /\ MaxAmongOthers(i)
             /\ spectralData.dominantFrequency = spectralData.frequencies[i]
      ELSE spectralData.dominantFrequency = RInt(0)

\* An analysis in which bin 0 has the largest magnitude of all and another
\* bin is reported.
C17_Witness ==
  /\ Analysed
  /\ \A j \in OtherBins :
       QGt(spectralData.magnitudes[1], spectralData.magnitudes[j])
  /\ SomeOtherBinPositive
  /\ spectralData.dominantFrequency # spectralData.frequencies[1]
AllBins == 1..Len(spectralData.magnitudes)
\* Bin i's magnitude exceeds half of the maximum magnitude over the bins S.
ExceedsHalfOfMax(i, S) ==
  \A j \in S : OverHalf(spectralData.magnitudes[i], spectralData.magnitudes[j])
\* The frequencies of the bins S, in bin order.
FrequenciesOf(S) ==
  [j \in 1..Cardinality(S) |-> spectralData.frequencies[SortedSeq(S)[j]]]

\* C18 (as stated): the harmonics of an analysis are exactly the frequencies
\* of all computed bins whose magnitude exceeds half of the maximum magnitude
\* over the computed bins.
C18_HarmonicsOverAllBins ==
  Analysed =>
    spectralData.harmonics =
      FrequenciesOf({i \in AllBins : ExceedsHalfOfMax(i, AllBins)})

\* C18 (as amended): the harmonics are exactly the frequencies of the bins
\* other than bin 0 whose magnitude exceeds half of the maximum magnitude
\* over the bins other than bin 0.
C18_HarmonicsOverOtherBins ==
  Analysed =>
    spectralData.harmonics =
      FrequenciesOf({i \in OtherBins : ExceedsHalfOfMax(i, OtherBins)})

\* An analysis where bin 0 is over the threshold and left out, one other bin
\* is a harmonic and one with a positive magnitude is not.
C18_Witness ==
  /\ Analysed
  /\ ExceedsHalfOfMax(1, OtherBins)
  /\ spectralData.frequencies[1] \notin Range(spectralData.harmonics)
  /\ \E i, j \in OtherBins :
       /\ spectralData.frequencies[i] \in Range(spectralData.harmonics)
       /\ spectralData.frequencies[j] \notin Range(spectralData.harmonics)
       /\ QPos(spectralData.magnitudes[j])

IsSinusoid(k) ==
  /\ <<WindowLength, k>> \in PureSinusoids
  /\ behaviorSequence = Sinusoid(WindowLength, k)
\* |dominantFrequency - k/N| <= 1/BinCap
WithinOneBin(k) ==
  LET dom == spectralData.dominantFrequency
  IN Abs(dom.n * WindowLength - k * dom.d) * BinCap <= dom.d * WindowLength

\* C20: after the analysis of a window of at least BinCap samples (64 in the
\* code) that holds a pure sinusoid of frequency f, the dominant frequency
\* differs from f by at most 1/BinCap.
C20_SinusoidRecovered ==
  \A k \in 1..6 :
    (Analysed /\ WindowLength >= BinCap /\ IsSinusoid(k)) => WithinOneBin(k)

C23_PhasesNormalized ==
  (/\ pc # "idle"
   /\ RLeq(RInt(0), cfg.phase0) /\ RLt(cfg.phase0, RInt(1))
   /\ cfg.multiplier > 0 /\ cfg.mod > 0)
  => /\ \A i \in 1..Len(trajectory) :
          RLeq(RInt(0), trajectory[i].phase) /\ RLt(trajectory[i].phase, RInt(1))
     /\ RLeq(RInt(0), cur.phase) /\ RLt(cur.phase, RInt(1))
     /\ ~PhaseOutOfBounds(trajectory)

\* A completed run from a phase0 other than 0 that recorded a computed
\* phase other than 0.
C23_Witness ==
  /\ pc = "done"
  /\ RLt(RInt(0), cfg.phase0)
  /\ \E i \in 2..Len(trajectory) :
       RLt(RInt(0), trajectory[i].phase) /\ trajectory[i].phase # cfg.phase0

\* C24: a BotFleet has at most one active interval timer, and it is the one
\* intervalId holds: while intervalId is null no timer is active.  A start
\* while running changes nothing, a stop leaves intervalId null and no timer
\* active, and a start after it sets a timer not used before.
C24_AtMostOneTimer ==
  /\ Cardinality(activeTimers) <= 1
  /\ intervalId # 0 => activeTimers = {intervalId}
  /\ intervalId = 0 => activeTimers = {}
  /\ intervalId < nextHandle

\* The fleet was started, stopped and started again: the second timer runs.
C24_Witness ==
  /\ intervalId = 2
  /\ activeTimers = {2}
  /\ nextHandle = 3

\* C25: while the fleet is stopped (intervalId is null before and after the
\* step) no fleet work happens: no run is written, no post is made, no
\* category is rewritten, no run directory is deleted and no criterion is
\* added.
C25_NoWorkWhileStopped ==
  [][(intervalId = 0 /\ intervalId' = 0) =>
       /\ runsDir' = runsDir
       /\ chain' = chain
       /\ categories' = categories
       /\ evictions' = evictions
       /\ customCriteria' = customCriteria
       /\ runCounter' = runCounter]_vars

\* C26: colPhase is 'stuckness' only with stuckCounter above StuckLimit (3 in
\* the code, so at least 4), which counts the invalid feedbacks since the
\* last valid one; every iterate call with a valid feedback leaves
\* stuckCounter 0 and colPhase other than 'stuckness', and one that enters
\* 'stuckness' had an invalid feedback.
C26_StucknessNeedsFourInvalid ==
  /\ bot.colPhase = "stuckness" => bot.stuckCounter >= StuckLimit + 1
  /\ \A i \in 1..Len(trail) :
       /\ trail[i].valid => (trail[i].stuckCounter = 0 /\ trail[i].to # "stuckness")
       /\ trail[i].to = "stuckness" => (~trail[i].valid /\ trail[i].stuckCounter >= StuckLimit + 1)
       /\ (~trail[i].valid /\ i > 1) => trail[i].stuckCounter = trail[i - 1].stuckCounter + 1

\* A bot that entered 'stuckness' at its fourth invalid feedback in a row and
\* left it at the next, valid one.
C26_Witness ==
  /\ Len(trail) >= 2
  /\ LET e == trail[Len(trail) - 1]
         l == trail[Len(trail)]
     IN /\ e.from # "stuckness" /\ e.to = "stuckness" /\ e.stuckCounter = StuckLimit + 1
        /\ l.valid /\ l.from = "stuckness" /\ l.to = "emergence"
  /\ bot.stuckCounter = 0

\* C27: the COL phases progress in order.  An iterate call enters
\* 'emergence' only from 'stuckness' and only on a valid feedback, enters
\* 'stabilization' only from 'emergence' and only on a valid feedback, and
\* never enters 'seeding'; and valid feedbacks take 'stuckness' to
\* 'emergence', 'emergence' to 'stabilization' and 'stabilization' to
\* 'exploration', so three in a row lead from 'stuckness' to 'exploration'.
C27_PhasesInOrder ==
  \A i \in 1..Len(trail) :
    LET e == trail[i] IN
    /\ (e.to = "emergence" /\ e.from # "emergence") => (e.from = "stuckness" /\ e.valid)
    /\ (e.to = "stabilization" /\ e.from # "stabilization") => (e.from = "emergence" /\ e.valid)
    /\ e.to = "seeding" => e.from = "seeding"
    /\ (e.valid /\ e.from = "stuckness") => e.to = "emergence"
    /\ (e.valid /\ e.from = "emergence") => e.to = "stabilization"
    /\ (e.valid /\ e.from = "stabilization") => e.to = "exploration"
    /\ i > 1 => e.from = trail[i - 1].to

\* Three valid feedbacks in a row took a bot from 'stuckness' through
\* 'emergence' and 'stabilization' to 'exploration'.
C27_Witness ==
  /\ Len(trail) >= 3
  /\ LET n == Len(trail) IN
     /\ trail[n - 2].from = "stuckness" /\ trail[n - 2].valid /\ trail[n - 2].to = "emergence"
     /\ trail[n - 1].valid /\ trail[n - 1].to = "stabilization"
     /\ trail[n].valid /\ trail[n].to = "exploration"
  /\ bot.colPhase = "exploration"

\* C28: the config every run of runIteration hands to runVariant is the one
\* generateConfig produced in the same loop pass, whatever iterate or
\* applyRedirectStrategy made of this.currentConfig before.
C28_RunsUseFreshConfig ==
  \A i \in 1..Len(runLog) : runLog[i].passed = runLog[i].fresh

\* A pass in which fleetCoordination's redirect changed this.currentConfig
\* and the run used another config.
C28_Witness ==
  \E i \in 1..Len(runLog) :
    /\ runLog[i].redirected
    /\ runLog[i].held # runLog[i].passed
    /\ runLog[i].passed = runLog[i].fresh

\* C29: the RunConfig recorded in a history entry is a snapshot: whatever
\* iterate, refineLogic or applyRedirectStrategy do later, the entry's
\* multiplier, mod, sizeX, sizeY and inversionSchedule are what they were
\* when the entry was pushed.
C29_HistoryConfigIsSnapshot ==
  \A i \in 1..Len(bot.history) :
    i <= Len(snapshots) => Stored(bot.heap[bot.history[i].config]) = snapshots[i]

\* C30: a bot whose last CycleWindow executed runs used fewer distinct
\* (sizeX, sizeY, multiplier, mod) tuples than half the window is reported by
\* updateStucknessState as stuck of type 'cycling', with a redirect strategy
\* other than 'none'.
C30_CyclingReported ==
  Cycling(seenAtUpdate.executed)
    => seenAtUpdate.type = "cycling" /\ seenAtUpdate.redirectStrategy # "none"
\* The bot has completed at least LocalWindow runs and at least LocalFailures
\* of the last LocalWindow received invalid feedback.
FailedRecentRuns ==
  /\ Len(runLog) >= LocalWindow
  /\ Cardinality({i \in (Len(runLog) - LocalWindow + 1)..Len(runLog) : ~runLog[i].valid})
       >= LocalFailures

\* C31: detectLocalMinima returns true exactly when the bot has completed at
\* least 5 runs and at least 4 of its last 5 runs received invalid feedback.
C31_LocalMinimaOverRuns == DetectLocalMinima(bot) <=> FailedRecentRuns
\* C32: once totalSimulations has reached a multiple of the upload period, a
\* simulation summary has been uploaded for that multiple: there are at least
\* as many uploads as multiples reached.
C32_UploadAtEveryMultiple == uploads >= totalSimulations \div UploadEvery
\* main() goes through allocateRunDir in this step.
AllocateStep == mpc = "parsed" /\ mpc' # "parsed"

\* The number allocateRunDir works with: run_counter.txt's, 1 if it is absent.
CounterRead == IF counterFile = -1 THEN 1 ELSE counterFile

\* The directory is created empty beside the others, the counter is the
\* number read plus one, and main() goes on to the simulation.
Allocated ==
  /\ mpc' = "allocated"
  /\ mrun' = CounterRead
  /\ DOMAIN runsDir' = DOMAIN runsDir \cup {CounterRead}
  /\ \A r \in DOMAIN runsDir : runsDir'[r] = runsDir[r]
  /\ counterFile' = CounterRead + 1

\* The call fails: main() ends with FATAL and runs/ is as it was.
Refused ==
  /\ mpc' = "none"
  /\ lastOutcome' = "fatal"
  /\ runsDir' = runsDir

DeleteStep == \E i \in 1..MaxTicks : tasks[i].pc = "cats" /\ tasks'[i].pc = "done"

\* Run r is named by an entry of one of the three category lists.
NamedByCategory(r, cs) ==
  \E c \in {"Event Density", "Phase Anomaly", "Spiral Phase Dynamics"} :
    \E k \in 1..Len(cs[c]) : cs[c][k].runDir = r

\* C34: when deleteNonTopRuns has completed, every remaining run directory
\* is named by an entry of the 'Event Density', 'Phase Anomaly' or 'Spiral
\* Phase Dynamics' list, and no directory so named has been deleted.
C34_KeepsExactlyNamedRuns ==
  [][DeleteStep =>
       /\ \A r \in DOMAIN runsDir' : NamedByCategory(r, categories')
       /\ \A r \in DOMAIN runsDir :
            NamedByCategory(r, categories')
              => r \in DOMAIN runsDir' /\ runsDir'[r] = runsDir[r]]_vars

\* deleteNonTopRuns has completed, having removed a run and kept a named one.
C34_Witness ==
  /\ \E i \in 1..MaxTicks : tasks[i].pc = "done"
  /\ evictions # {}
  /\ DOMAIN runsDir # {}
  /\ \A r \in DOMAIN runsDir : NamedByCategory(r, categories)
\* C35: if every event's phaseBefore and phaseAfter lie in [0,1), no run is
\* classified 'Spiral Phase Dynamics': the category stays empty, and
\* refineLogic registers no custom criterion and sets no multiplier or mod.
C35_NormalizedPhasesNeverSpiral ==
  allNormalized =>
    spiralChain = <<>> /\ spiralData = <<>> /\ registered = 0 /\ varied = 0

\* Three callbacks, long enough for refineLogic to reach the bot's config,
\* whose runs had events with phase jumps of 1/2 up or down and phases in
\* [0,1) only.
C35_Witness ==
  /\ allNormalized
  /\ historyLen > RefineMin
  /\ Len(sortedLog) >= 2
  /\ PhaseJump(sortedLog[Len(sortedLog)]) = Rat(-1, 2)
  /\ registered = 0
C37_ShortWindowKeepsStoredData ==
  [][Len(behaviorSequence) < MinSamples
       => /\ spectralData' = spectralData
          /\ spectralData' = EmptySpectral
          /\ behaviorSequence' = behaviorSequence]_vars

\* The analysis was called on a short window that holds a non-zero sample.
C37_Witness ==
  /\ analysed = 1
  /\ Len(behaviorSequence) < MinSamples
  /\ \E i \in 1..Len(behaviorSequence) : behaviorSequence[i] # 0
  /\ spectralData = EmptySpectral
\* The distinct differences between consecutive event steps of sortedLog.
DistinctSpacings ==
  {sortedLog[j].step - sortedLog[i].step : <<i, j>> \in
     {p \in (1..Len(sortedLog)) \X (1..Len(sortedLog)) : p[2] = p[1] + 1}}

\* C38: the spacing-band criterion yields a candidate entry exactly when the
\* distinct differences between consecutive event steps number at most 5
\* (event logs with fewer than two events included); the entry's score is
\* the number of distinct spacings; otherwise it yields no entry.
C38_BandEntryIffFewSpacings ==
  sorts > 0 =>
    IF Cardinality(DistinctSpacings) <= 5
      THEN /\ Len(bandEntries) = 1
           /\ bandEntries[1].score = Cardinality(DistinctSpacings)
           /\ bandEntries[1].category = "Spacing Bands"
      ELSE bandEntries = <<>>

\* A log of more than 5 spacings of which 5 are distinct, with its entry.
C38_Witness ==
  /\ sorts > 0
  /\ Len(sortedLog) > 6
  /\ Cardinality(DistinctSpacings) = 5
  /\ bandEntries # <<>>

\* A log with 6 distinct spacings, without an entry.
C38_WitnessNoEntry ==
  /\ sorts > 0
  /\ Cardinality(DistinctSpacings) = 6
  /\ bandEntries = <<>>

\* A log with fewer than two events, with an entry of score 0.
C38_WitnessShortLog ==
  /\ sorts > 0
  /\ Len(sortedLog) < 2
  /\ bandEntries = <<BandEntry(0)>>
====
